---- MODULE Spec2Model ----
(***************************************************************************)
(* Verification model of the raster hazard-processing core of the Pokhara  *)
(* multi-hazard monitoring system: the SAR flood pipeline, the classifiers *)
(* and the weighted combination of hazard layers.                          *)
(*                                                                         *)
(* Arrays are records [shape, data]; data maps <<row, col>> to a sample.   *)
(* NumPy arrays are objects: the flood pipeline keeps them in a heap so    *)
(* that copying and in-place assignment can be told apart.                 *)
(***************************************************************************)
EXTENDS Integers, Sequences, FiniteSets, TLC

\* ------------------------------------------------------------------ state
VARIABLES
    \* one run of process_sar_for_flood
    pc,          \* position in process_sar_for_flood
    sar_file,    \* the backscatter grid on disk
    dem_file,    \* the elevation grid on disk
    cfg,         \* the parameters of the run
    heap,        \* the mask arrays allocated so far
    water_mask_id,  \* the local variable water_mask: an index of heap, 0 unbound
    calls,       \* the stage calls made, in order
    out_file,    \* the flood mask file: <<>> when absent, else <<record>>
    error,       \* the exception that ended the run, "none" otherwise
    stats,       \* the flood statistics: <<>> before they are computed
    \* the classifiers applied to one array
    cl_array,       \* the continuous input array
    cl_thresholds,  \* the threshold table passed to the classifiers
    cl_out,         \* per classifier: <<>> before the call, <<result>> after
    \* one run of run_landslide_pipeline
    ls_pc,          \* position in run_landslide_pipeline
    ls_args,        \* train_new_model and which collaborator files exist
    ls_stack,       \* the feature stack: per pixel, the sample of each band
    ls_files,       \* the files written so far, by name
    ls_prob,        \* the probability raster, <<>> before the prediction
    ls_classified,  \* the classified raster, <<>> before the classification
    ls_error,       \* the exception that ended the run, "none" otherwise
    \* one run of run_multi_hazard_integration / combine_hazards
    mh_pc,          \* position in run_multi_hazard_integration
    mh_in,          \* the input rasters: landslide, flood, exposure (<<>> if absent)
    mh_weights,     \* the weight table combine_hazards uses
    mh_coeffs,      \* the coefficients applied to the normalized layers
    mh_risk,        \* the combined risk raster, <<>> before the combination
    mh_classified,  \* the classified risk raster, <<>> before the classification
    mh_files,       \* the files written so far, by name
    mh_error,       \* the exception that ended the run, "none" otherwise
    \* one direct call of a function of the library
    fc_fn,          \* the function called, "none" if there is no such call
    fc_args,        \* its arguments
    fc_out,         \* <<>> before the call, <<result>> after
    \* two runs of run_landslide_pipeline on one file system
    cr_pc,         \* per run, its position in run_landslide_pipeline
    cr_dem,        \* per run, the elevation file it was given
    cr_fs,         \* the file system: path to content, for the files written
    cr_local,      \* per run, the arrays it holds in memory
    cr_wrote,      \* per run, the paths it has written
    \* step 3 of run_flood_pipeline
    flood_geojson, \* <<>> or <<the feature collection written>>
    \* the script run_all_pipelines
    ra_pc,         \* position in the script
    ra_attempts,   \* the pipelines called so far, each with how its call ended
    ra_log,        \* the result messages printed so far
    \* the negative-sampling loop of prepare_training_features
    ns_pc,         \* position: in the loop or past it
    ns_features,   \* the feature stack: per pixel, the sample of each band
    n_negative_samples,  \* the number of negative samples asked for
    attempts,      \* the draws made so far
    negative_samples  \* the samples collected so far

floodVars == <<pc, sar_file, dem_file, cfg, heap, water_mask_id, calls, out_file, error, stats>>
classVars == <<cl_array, cl_thresholds, cl_out>>
lsVars == <<ls_pc, ls_args, ls_stack, ls_files, ls_prob, ls_classified, ls_error>>
mhVars == <<mh_pc, mh_in, mh_weights, mh_coeffs, mh_risk, mh_classified, mh_files, mh_error>>
callVars == <<fc_fn, fc_args, fc_out>>
concVars == <<cr_pc, cr_dem, cr_fs, cr_local, cr_wrote>>
pipeVars == <<flood_geojson>>
scriptVars == <<ra_pc, ra_attempts, ra_log>>
sampleVars == <<ns_pc, ns_features, n_negative_samples, attempts, negative_samples>>
vars == <<floodVars, classVars, lsVars, mhVars, callVars, concVars, pipeVars, scriptVars, sampleVars>>
\* What the actions of one part leave alone.
notFlood == <<classVars, lsVars, mhVars, callVars, concVars, pipeVars, scriptVars, sampleVars>>
notClass == <<floodVars, lsVars, mhVars, callVars, concVars, pipeVars, scriptVars, sampleVars>>
notLs == <<floodVars, classVars, mhVars, callVars, concVars, pipeVars, scriptVars, sampleVars>>
notMh == <<floodVars, classVars, lsVars, callVars, concVars, pipeVars, scriptVars, sampleVars>>
notCall == <<floodVars, classVars, lsVars, mhVars, concVars, pipeVars, scriptVars, sampleVars>>
notConc == <<floodVars, classVars, lsVars, mhVars, callVars, pipeVars, scriptVars, sampleVars>>
notPipe == <<floodVars, classVars, lsVars, mhVars, callVars, concVars, scriptVars, sampleVars>>
notScript == <<floodVars, classVars, lsVars, mhVars, callVars, concVars, pipeVars, sampleVars>>
notSample == <<floodVars, classVars, lsVars, mhVars, callVars, concVars, pipeVars, scriptVars>>

\* ------------------------------------------------------------------ bounds
H == 5
W == 5
MaxKernel == 2
MaxTick == 5
LsPixels == 2
NzLen == 3
GjSize == 4
MhPixels == 2
MaxWeight == 2
ExPixels == 2
MaxSaves == 2
MaxRasters == 3
MaxNegative == 2

\* --------------------------------------------------------------- samples
NoData == -9999
\* IEEE NaN: a sentinel outside every sample range; every comparison below
\* treats it the way NumPy does (any ordered comparison with NaN is false,
\* NaN != x is true).
NaN == NoData - 1
IsNaN(v) == v = NaN

\* Backscatter samples (dB) of the scenes explored: open water and land.
SarValues == {-22, -6}
SarSamples == SarValues \cup {NoData, NaN}
\* sar_threshold of FLOOD_CONFIG and the two sample values themselves.
ManualThresholds == {-22, -18, -6}
DemCeiling == 100
DemSamples == {DemCeiling - 1, DemCeiling, DemCeiling + 1}
DemCeilings == {DemCeiling, DemCeiling + 1}

\* ---------------------------------------------------------------- arrays
Pixels(shape) == (0 .. shape[1] - 1) \X (0 .. shape[2] - 1)

Full(shape, v) == [shape |-> shape, data |-> [p \in Pixels(shape) |-> v]]

SceneShape == <<H, W>>

\* Real-valued samples are exact rationals [n, d] with d > 0; d = 0 is NaN.
\* Every ordered comparison with NaN is false, as in NumPy.
RECURSIVE GCD(_, _)
GCD(a, b) == IF b = 0 THEN a ELSE GCD(b, a % b)
Abs(x) == IF x < 0 THEN -x ELSE x
Rat(n, d) ==
    LET g == GCD(Abs(n), d) IN [n |-> n \div g, d |-> d \div g]

\* ------------------------------------------------------- apply_threshold
\* valid_mask = ~np.isnan(sar_array) & (sar_array != -9999)
valid_mask(sar_array) ==
    [p \in Pixels(sar_array.shape) |->
        ~IsNaN(sar_array.data[p]) /\ sar_array.data[p] /= NoData]

\* Thresholds are kept in units of 1/512 dB: the centre of a histogram bin
\* of skimage's 256-bin histogram is a multiple of (max - min) / 512.
Scale == 512

SetMin(S) == CHOOSE x \in S : \A y \in S : x <= y
SetMax(S) == CHOOSE x \in S : \A y \in S : x >= y

\* Mutant of threshold_otsu: for two values the lower edge of bin 0, the
\* minimum itself, instead of the centre of bin 0.
threshold_otsu_FirstEdge(valid_values) ==
    IF valid_values = {} THEN [error |-> "IndexError", value |-> 0]
    ELSE [error |-> "none", value |-> Scale * SetMin(valid_values)]

\* skimage.filters.threshold_otsu on the valid samples, for at most two
\* distinct values: an empty input fails on image.reshape(-1)[0]; a constant
\* image returns its value; two values fall in bins 0 and 255, variance12 is
\* the same for every split and argmax takes the first, bin centre 0.
threshold_otsu(valid_values) ==
    IF valid_values = {} THEN [error |-> "IndexError", value |-> 0]
    ELSE IF Cardinality(valid_values) = 1
    THEN [error |-> "none", value |-> Scale * SetMin(valid_values)]
    ELSE [error |-> "none",
          value |-> Scale * SetMin(valid_values)
                    + (SetMax(valid_values) - SetMin(valid_values))]

\* sar_array[valid_mask] < threshold, threshold in 1/512 dB
LessThan(v, threshold512) == ~IsNaN(v) /\ Scale * v < threshold512

\* Mutant of apply_threshold: the comparison is <= instead of <.
apply_threshold_Le(sar_array, threshold, use_otsu) ==
    LET vm == valid_mask(sar_array)
        otsu == threshold_otsu({sar_array.data[p] : p \in {q \in DOMAIN vm : vm[q]}})
        thr == IF use_otsu THEN otsu.value ELSE Scale * threshold
    IN  IF use_otsu /\ otsu.error /= "none"
        THEN [error |-> otsu.error, ret |-> Full(sar_array.shape, 0)]
        ELSE [error |-> "none",
              ret |-> [shape |-> sar_array.shape,
                       data |-> [p \in Pixels(sar_array.shape) |->
                           IF vm[p] /\ Scale * sar_array.data[p] <= thr
                           THEN 1 ELSE 0]]]

\* Mutant of apply_threshold: a failure of threshold_otsu is swallowed and
\* an all-zero mask returned.
apply_threshold_EmptyIsZeros(sar_array, threshold, use_otsu) ==
    LET vm == valid_mask(sar_array)
        otsu == threshold_otsu({sar_array.data[p] : p \in {q \in DOMAIN vm : vm[q]}})
        thr == IF use_otsu THEN otsu.value ELSE Scale * threshold
    IN  [error |-> "none",
         ret |-> [shape |-> sar_array.shape,
                  data |-> [p \in Pixels(sar_array.shape) |->
                      IF vm[p] /\ LessThan(sar_array.data[p], thr) THEN 1 ELSE 0]]]

apply_threshold(sar_array, threshold, use_otsu) ==
    LET vm == valid_mask(sar_array)
        otsu == threshold_otsu({sar_array.data[p] : p \in {q \in DOMAIN vm : vm[q]}})
        thr == IF use_otsu THEN otsu.value ELSE Scale * threshold
        \* water_mask = np.zeros_like(sar_array, dtype=np.uint8)
        zeros == Full(sar_array.shape, 0)
    IN  IF use_otsu /\ otsu.error /= "none"
        THEN [error |-> otsu.error, ret |-> zeros]
        ELSE [error |-> "none",
              \* water_mask[valid_mask] = (sar_array[valid_mask] < threshold)
              ret |-> [zeros EXCEPT !.data =
                         [p \in Pixels(sar_array.shape) |->
                            IF vm[p]
                            THEN (IF LessThan(sar_array.data[p], thr) THEN 1 ELSE 0)
                            ELSE zeros.data[p]]]]

\* -------------------------------------------------------- apply_dem_mask
\* dem_array > elevation_threshold (false for NaN)
Above(e, elevation_threshold) == ~IsNaN(e) /\ e > elevation_threshold

\* The heap is a sequence of arrays; an array object is its index.
Alloc(hp, a) == [heap |-> Append(hp, a), ret |-> Len(hp) + 1]

\* Boolean-mask assignment refined_mask[high_elevation] = 0. NumPy indexes
\* the mask with a boolean array of the same shape.
MaskAssign(a, dem_array, elevation_threshold) ==
    [a EXCEPT !.data = [p \in Pixels(a.shape) |->
        IF Above(dem_array.data[p], elevation_threshold) THEN 0 ELSE a.data[p]]]

\* Mutant of apply_dem_mask: no copy, the caller's mask is changed in place.
apply_dem_mask_InPlace(hp, water_mask, dem_array, elevation_threshold) ==
    [heap |-> [hp EXCEPT ![water_mask] =
                  MaskAssign(hp[water_mask], dem_array, elevation_threshold)],
     ret |-> water_mask]

\* Mutant of apply_dem_mask: >= instead of >.
apply_dem_mask_Ge(hp, water_mask, dem_array, elevation_threshold) ==
    Alloc(hp, MaskAssign(hp[water_mask], dem_array, elevation_threshold - 1))

apply_dem_mask(hp, water_mask, dem_array, elevation_threshold) ==
    \* refined_mask = water_mask.copy(); refined_mask[high_elevation] = 0
    LET copied == Alloc(hp, hp[water_mask])
    IN  [heap |-> [copied.heap EXCEPT ![copied.ret] =
                      MaskAssign(copied.heap[copied.ret], dem_array,
                                 elevation_threshold)],
         ret |-> copied.ret]

\* ---------------------------------------- apply_morphological_operations
\* generate_binary_structure(2, 1): the pixel and its 4 edge neighbours.
structure(p) ==
    {p, <<p[1] - 1, p[2]>>, <<p[1] + 1, p[2]>>, <<p[1], p[2] - 1>>, <<p[1], p[2] + 1>>}

\* One pass of scipy's binary erosion, border_value = 0: a neighbour outside
\* the grid is background.
erode(shape, b) ==
    [p \in Pixels(shape) |->
        \A q \in structure(p) : q \in Pixels(shape) /\ b[q]]

\* One pass of scipy's binary dilation, border_value = 0.
dilate(shape, b) ==
    [p \in Pixels(shape) |->
        \E q \in structure(p) : q \in Pixels(shape) /\ b[q]]

RECURSIVE binary_erosion(_, _, _)
binary_erosion(shape, b, iterations) ==
    IF iterations = 0 THEN b
    ELSE LET e == erode(shape, b)
         \* e = e makes TLC compute the pass once instead of once per read
         IN  IF e = e THEN binary_erosion(shape, e, iterations - 1) ELSE e

RECURSIVE binary_dilation(_, _, _)
binary_dilation(shape, b, iterations) ==
    IF iterations = 0 THEN b
    ELSE LET e == dilate(shape, b)
         IN  IF e = e THEN binary_dilation(shape, e, iterations - 1) ELSE e

binary_opening(shape, b, iterations) ==
    binary_dilation(shape, binary_erosion(shape, b, iterations), iterations)

binary_closing(shape, b, iterations) ==
    binary_erosion(shape, binary_dilation(shape, b, iterations), iterations)

\* Mutant of apply_morphological_operations: the opening is left out.
apply_morphological_operations_CloseOnly(mask, kernel_size) ==
    LET b == [p \in Pixels(mask.shape) |-> mask.data[p] /= 0]
        cleaned == binary_closing(mask.shape, b, kernel_size)
    IN  [shape |-> mask.shape,
         data |-> [p \in Pixels(mask.shape) |-> IF cleaned[p] THEN 1 ELSE 0]]

\* Mutant of apply_morphological_operations: the closing is left out.
apply_morphological_operations_OpenOnly(mask, kernel_size) ==
    LET b == [p \in Pixels(mask.shape) |-> mask.data[p] /= 0]
        opened == binary_opening(mask.shape, b, kernel_size)
    IN  [shape |-> mask.shape,
         data |-> [p \in Pixels(mask.shape) |-> IF opened[p] THEN 1 ELSE 0]]

apply_morphological_operations(mask, kernel_size) ==
    LET b == [p \in Pixels(mask.shape) |-> mask.data[p] /= 0]
        opened == binary_opening(mask.shape, b, kernel_size)
        cleaned == binary_closing(mask.shape, opened, kernel_size)
    IN  \* cleaned.astype(np.uint8)
        [shape |-> mask.shape,
         data |-> [p \in Pixels(mask.shape) |-> IF cleaned[p] THEN 1 ELSE 0]]

\* ------------------------------------------------------------- the scenes
\* A scene is a backscatter grid and an elevation grid. The scenes explored
\* are the uniform ones (all water, all land or all nodata, every elevation
\* below the ceiling) and those with one pixel replaced by any pair of
\* samples.
SceneKinds == SarSamples \X DemSamples

BaseScenes ==
    {[sar |-> Full(SceneShape, s), dem |-> Full(SceneShape, DemCeiling - 1)] :
        s \in SarValues \cup {NoData}}

Perturb(S) ==
    S \cup {[sar |-> [sc.sar EXCEPT !.data[p] = k[1]],
             dem |-> [sc.dem EXCEPT !.data[p] = k[2]]] :
                sc \in S, p \in Pixels(SceneShape), k \in SceneKinds}

Scenes == Perturb(BaseScenes)

\* Scenes whose elevation grid has another shape than the backscatter grid.
MismatchScenes ==
    {[sar |-> Full(SceneShape, s), dem |-> Full(sh, DemCeiling - 1)] :
        s \in SarValues, sh \in {<<H - 1, W>>, <<H, W - 1>>}}

\* Parameters of process_sar_for_flood. In automatic mode the manual
\* threshold is not read; it is kept at its default.
FloodConfigs ==
    {[threshold |-> t, use_otsu |-> o, dem_threshold |-> d, morphology_kernel |-> k] :
        t \in ManualThresholds, o \in BOOLEAN, d \in DemCeilings, k \in 1 .. MaxKernel}

\* ------------------------------------------- process_sar_for_flood
FloodInit ==
    /\ pc = "read"
    /\ \E sc \in Scenes \cup MismatchScenes :
          /\ sar_file = sc.sar
          /\ dem_file = sc.dem
    /\ cfg \in FloodConfigs
    /\ (cfg.use_otsu => cfg.threshold = -18)
    /\ heap = <<>>
    /\ water_mask_id = 0
    /\ calls = <<>>
    /\ out_file = <<>>
    /\ error = "none"
    /\ stats = <<>>

\* What a stage call is recorded as: the array object passed and returned
\* and their contents at the call and at the return. A call that raised has
\* ret = 0 and ret_val = NoArray.
NoArray == Full(<<0, 0>>, 0)
Call(fn, arg, arg_val, ret, ret_val) ==
    [fn |-> fn, arg |-> arg, arg_val |-> arg_val, ret |-> ret, ret_val |-> ret_val]

\* Mutant of ReadRasters: the dimension check is missing.
ReadRasters_NoCheck ==
    /\ pc = "read"
    /\ pc' = "threshold"
    /\ UNCHANGED <<sar_file, dem_file, cfg, heap, water_mask_id, calls, out_file, error>>
    /\ UNCHANGED <<stats, notFlood>>

\* read_raster of both grids and the dimension check (lines 145-157).
ReadRasters ==
    /\ pc = "read"
    /\ IF sar_file.shape /= dem_file.shape
       THEN /\ pc' = "failed"
            /\ error' = "ValueError"
       ELSE /\ pc' = "threshold"
            /\ error' = error
    /\ UNCHANGED <<sar_file, dem_file, cfg, heap, water_mask_id, calls, out_file>>
    /\ UNCHANGED <<stats, notFlood>>

\* Step 1: water_mask = apply_threshold(sar_array, threshold, use_otsu).
\* The backscatter array is object 0.
StepThreshold ==
    /\ pc = "threshold"
    /\ LET r == apply_threshold(sar_file, cfg.threshold, cfg.use_otsu)
           a == Alloc(heap, r.ret)
       IN  IF r.error /= "none"
           THEN /\ pc' = "failed"
                /\ error' = r.error
                /\ calls' = Append(calls, Call("apply_threshold", 0, sar_file, 0, NoArray))
                /\ UNCHANGED <<heap, water_mask_id>>
           ELSE /\ pc' = "dem_mask"
                /\ heap' = a.heap
                /\ water_mask_id' = a.ret
                /\ calls' = Append(calls, Call("apply_threshold", 0, sar_file, a.ret, r.ret))
                /\ error' = error
    /\ UNCHANGED <<sar_file, dem_file, cfg, out_file>>
    /\ UNCHANGED <<stats, notFlood>>

\* Mutant of StepDemMask: the elevation filter is skipped.
StepDemMask_Skipped ==
    /\ pc = "dem_mask"
    /\ pc' = "morphology"
    /\ UNCHANGED <<sar_file, dem_file, cfg, heap, water_mask_id, calls, out_file, error>>
    /\ UNCHANGED <<stats, notFlood>>

\* Step 2: water_mask = apply_dem_mask(water_mask, dem_array, dem_threshold)
StepDemMask ==
    /\ pc = "dem_mask"
    /\ LET r == apply_dem_mask(heap, water_mask_id, dem_file, cfg.dem_threshold)
       IN  /\ heap' = r.heap
           /\ water_mask_id' = r.ret
           /\ calls' = Append(calls, Call("apply_dem_mask", water_mask_id, heap[water_mask_id],
                                          r.ret, r.heap[r.ret]))
    /\ pc' = "morphology"
    /\ UNCHANGED <<sar_file, dem_file, cfg, out_file, error>>
    /\ UNCHANGED <<stats, notFlood>>

\* Step 3: water_mask = apply_morphological_operations(water_mask, kernel)
StepMorphology ==
    /\ pc = "morphology"
    /\ LET a == Alloc(heap, apply_morphological_operations(heap[water_mask_id],
                                                           cfg.morphology_kernel))
       IN  /\ heap' = a.heap
           /\ water_mask_id' = a.ret
           /\ calls' = Append(calls, Call("apply_morphological_operations", water_mask_id,
                                          heap[water_mask_id], a.ret, a.heap[a.ret]))
    /\ pc' = "save"
    /\ UNCHANGED <<sar_file, dem_file, cfg, out_file, error>>
    /\ UNCHANGED <<stats, notFlood>>

\* save_cog(water_mask, output_path, sar_profile, nodata=0) and the return.
SaveOutput ==
    /\ pc = "save"
    /\ out_file' = <<[data |-> heap[water_mask_id].data, shape |-> heap[water_mask_id].shape,
                      nodata |-> 0]>>
    /\ pc' = "done"
    /\ UNCHANGED <<sar_file, dem_file, cfg, heap, water_mask_id, calls, error>>
    /\ UNCHANGED <<stats, notFlood>>

\* pixel_size: float = 30
PixelSize == 30

\* np.sum(flood_mask)
RECURSIVE SumOver(_, _)
SumOver(data, todo) ==
    IF todo = {} THEN 0
    ELSE LET p == CHOOSE p \in todo : TRUE
         IN  data[p] + SumOver(data, todo \ {p})

\* calculate_flood_statistics(flood_mask, pixel_size); flood_mask.size is
\* the number of elements of the mask.
calculate_flood_statistics(flood_mask, pixel_size) ==
    LET flood_pixels == SumOver(flood_mask.data, Pixels(flood_mask.shape))
        flood_area_m2 == flood_pixels * (pixel_size * pixel_size)
        size == flood_mask.shape[1] * flood_mask.shape[2]
    IN  [flood_pixels |-> flood_pixels,
         flood_area_m2 |-> flood_area_m2,
         flood_area_km2 |-> Rat(flood_area_m2, 1000000),
         total_pixels |-> size,
         flood_percentage |-> Rat(flood_pixels * 100, size)]

\* STEP 2 of run_flood_pipeline: the statistics of the mask that
\* process_sar_for_flood returned.
CalculateStatistics ==
    /\ pc = "done"
    /\ stats = <<>>
    /\ stats' = <<calculate_flood_statistics(heap[water_mask_id], PixelSize)>>
    /\ UNCHANGED <<pc, sar_file, dem_file, cfg, heap, water_mask_id, calls, out_file, error>>
    /\ UNCHANGED notFlood

FloodNext ==
    ReadRasters \/ StepThreshold \/ StepDemMask \/ StepMorphology \/ SaveOutput
        \/ CalculateStatistics

\* ======================================================= the flood claims
FloodStages == <<"apply_threshold", "apply_dem_mask", "apply_morphological_operations">>

\* C1: a run of process_sar_for_flood that completes has called Segment,
\* Elevation-filter and Cleanup exactly once each, in that order, each stage
\* taking the array the previous stage returned, and has saved the array
\* Cleanup returned; at every moment the calls made are a prefix of that
\* order, in automatic and in manual mode alike.
C1_StagesInOrder ==
    /\ Len(calls) <= 3
    /\ \A i \in 1 .. Len(calls) : calls[i].fn = FloodStages[i]
    /\ \A i \in 2 .. Len(calls) :
          /\ calls[i].arg = calls[i - 1].ret
          /\ calls[i].arg_val = calls[i - 1].ret_val
    /\ pc = "done" =>
          /\ Len(calls) = 3
          /\ calls[1].arg = 0
          /\ calls[1].arg_val = sar_file
          /\ out_file /= <<>>
          /\ out_file[1].data = calls[3].ret_val.data

C1_Witness ==
    /\ pc = "done"
    /\ cfg.use_otsu
    /\ Len(calls) = 3
    /\ \E p \in Pixels(SceneShape) : calls[1].ret_val.data[p] /= calls[2].ret_val.data[p]

\* C2: in manual mode the mask apply_threshold returns is 1 at a sample iff
\* the sample is neither NaN nor -9999 and is strictly below the manual
\* threshold, and 0 at every other sample.
C2_ManualThresholdStrict ==
    (Len(calls) >= 1 /\ calls[1].ret /= 0 /\ ~cfg.use_otsu) =>
        \A p \in Pixels(sar_file.shape) :
            LET v == sar_file.data[p] IN
            calls[1].ret_val.data[p] =
                IF v /= NaN /\ v /= NoData /\ v < cfg.threshold THEN 1 ELSE 0

C2_Witness ==
    /\ Len(calls) >= 1 /\ calls[1].ret /= 0 /\ ~cfg.use_otsu
    /\ \E p, q \in Pixels(sar_file.shape) :
          /\ sar_file.data[p] = cfg.threshold
          /\ calls[1].ret_val.data[p] = 0
          /\ calls[1].ret_val.data[q] = 1

\* C3 (as claimed): in a completed run every pixel Segment flagged as water
\* whose elevation is above the ceiling is 0 in the final mask.
C3_ElevatedWaterRemoved ==
    pc = "done" =>
        \A p \in Pixels(sar_file.shape) :
            (calls[1].ret_val.data[p] = 1 /\ dem_file.data[p] > cfg.dem_threshold)
                => out_file[1].data[p] = 0

\* C4: apply_dem_mask returns a new array that is 0 where the elevation is
\* strictly above the ceiling and equal to its input everywhere else, and
\* the array passed in keeps its contents.
C4_DemMaskExact ==
    Len(calls) >= 2 =>
        /\ calls[2].ret /= calls[2].arg
        /\ heap[calls[2].arg] = calls[2].arg_val
        /\ \A p \in Pixels(sar_file.shape) :
              calls[2].ret_val.data[p] =
                  IF dem_file.data[p] > cfg.dem_threshold THEN 0
                  ELSE calls[2].arg_val.data[p]

C4_Witness ==
    /\ Len(calls) >= 2
    /\ \E p \in Pixels(sar_file.shape) :
          /\ dem_file.data[p] = cfg.dem_threshold
          /\ calls[2].arg_val.data[p] = 1
          /\ calls[2].ret_val.data[p] = 1

\* C5: when the two grids differ in shape the run ends in the dimension
\* error before any stage is called, and no flood mask file is written.
C5_ShapeMismatchFails ==
    sar_file.shape /= dem_file.shape =>
        /\ pc \in {"read", "failed"}
        /\ pc = "failed" => error = "ValueError"
        /\ calls = <<>>
        /\ out_file = <<>>

C5_Witness ==
    /\ sar_file.shape /= dem_file.shape
    /\ pc = "failed"
    /\ error = "ValueError"

\* The scenes of C6: every pixel water (-22 dB) or land (-6 dB), every
\* elevation at or below the ceiling, manual mode with threshold -18 dB.
C6_Scene ==
    /\ sar_file.shape = dem_file.shape
    /\ ~cfg.use_otsu
    /\ cfg.threshold = -18
    /\ \A p \in Pixels(sar_file.shape) :
          /\ sar_file.data[p] \in SarValues
          /\ dem_file.data[p] <= cfg.dem_threshold

\* C6 (as claimed): on such a scene the final mask is 1 exactly on the
\* water pixels.
C6_FinalMaskIsWater ==
    (pc = "done" /\ C6_Scene) =>
        \A p \in Pixels(sar_file.shape) :
            out_file[1].data[p] = IF sar_file.data[p] = -22 THEN 1 ELSE 0

\* C6 (amended): on such a scene the mask that enters Cleanup (the result of
\* Segment and Elevation-filter) is 1 exactly on the water pixels, and the
\* final mask is the cleanup of that mask.
C6_MaskBeforeCleanupIsWater ==
    (Len(calls) >= 2 /\ C6_Scene) =>
        /\ \A p \in Pixels(sar_file.shape) :
              calls[2].ret_val.data[p] = IF sar_file.data[p] = -22 THEN 1 ELSE 0
        /\ Len(calls) = 3 => calls[3].arg_val = calls[2].ret_val
        /\ pc = "done" => out_file[1].data = calls[3].ret_val.data

C6_Witness ==
    /\ pc = "done"
    /\ C6_Scene
    /\ \E p, q \in Pixels(sar_file.shape) :
          /\ sar_file.data[p] = -22 /\ dem_file.data[p] = cfg.dem_threshold
          /\ sar_file.data[q] = -6
          /\ calls[2].ret_val.data[p] = 1
          /\ out_file[1].data[p] = 0

\* The distinct valid samples of the backscatter file.
ValidSarValues ==
    {sar_file.data[p] : p \in {q \in Pixels(sar_file.shape) : valid_mask(sar_file)[q]}}

\* C17: in automatic mode, on a grid whose valid samples take exactly two
\* values, the threshold apply_threshold selects lies strictly between
\* the two, and the mask it returns is 1 exactly on the samples of the
\* lower value.
C17_OtsuSeparatesTwoClusters ==
    (Len(calls) >= 1 /\ cfg.use_otsu /\ Cardinality(ValidSarValues) = 2) =>
        LET lo == SetMin(ValidSarValues)
            hi == SetMax(ValidSarValues)
            selected == threshold_otsu(ValidSarValues)
        IN  /\ selected.error = "none"
            /\ Scale * lo < selected.value
            /\ selected.value < Scale * hi
            /\ calls[1].ret /= 0
            /\ \A p \in Pixels(sar_file.shape) :
                  calls[1].ret_val.data[p] = IF sar_file.data[p] = lo THEN 1 ELSE 0

C17_Witness ==
    /\ Len(calls) >= 1 /\ cfg.use_otsu /\ ValidSarValues = {-22, -6}
    /\ \E p, q \in Pixels(sar_file.shape) :
          /\ sar_file.data[p] = -22 /\ calls[1].ret_val.data[p] = 1
          /\ sar_file.data[q] = -6 /\ calls[1].ret_val.data[q] = 0

\* C18: in automatic mode, on a grid with no valid sample, apply_threshold
\* raises and returns no mask: the run has failed, no array was created
\* and no file written.
C18_EmptyInputFails ==
    (Len(calls) >= 1 /\ cfg.use_otsu /\ ValidSarValues = {}) =>
        /\ pc = "failed"
        /\ error /= "none"
        /\ Len(calls) = 1
        /\ calls[1].fn = "apply_threshold"
        /\ calls[1].ret = 0
        /\ heap = <<>>
        /\ out_file = <<>>

C18_Witness ==
    /\ pc = "failed"
    /\ cfg.use_otsu
    /\ ValidSarValues = {}
    /\ error = "IndexError"
    /\ \E p \in Pixels(sar_file.shape) : IsNaN(sar_file.data[p])

\* C20 (as claimed): the statistics report the number of 1-pixels of the
\* mask, that number times pixel_size squared as the area in m2, the area
\* divided by 1,000,000 in km2, and 100 times the number of 1-pixels
\* divided by the number of valid (non-nodata) pixels of the scene as the
\* percentage; the mask is what it was before.
C20_FloodStatistics ==
    stats /= <<>> =>
        LET mask == heap[water_mask_id]
            ones == Cardinality({p \in Pixels(mask.shape) : mask.data[p] = 1})
            valid == Cardinality({p \in Pixels(sar_file.shape) : valid_mask(sar_file)[p]})
        IN  /\ stats[1].flood_pixels = ones
            /\ stats[1].flood_area_m2 = ones * PixelSize * PixelSize
            /\ stats[1].flood_area_km2.n * 1000000
                  = stats[1].flood_area_m2 * stats[1].flood_area_km2.d
            /\ stats[1].flood_percentage.n * valid
                  = 100 * ones * stats[1].flood_percentage.d
            /\ mask.data = out_file[1].data

\* ============================================================ classifiers
\* NaN and the comparisons of NumPy on exact rationals
RNaN == [n |-> 0, d |-> 0]
RIsNaN(a) == a.d = 0
RLe(a, b) == a.d /= 0 /\ b.d /= 0 /\ a.n * b.d <= b.n * a.d
RLt(a, b) == a.d /= 0 /\ b.d /= 0 /\ a.n * b.d < b.n * a.d
RGt(a, b) == RLt(b, a)
RNoData == Rat(NoData, 1)

\* Samples and bounds are multiples of 1/5, the step of the configured
\* thresholds 0.2, 0.4, 0.6, 0.8.
Tick(k) == Rat(k, 5)

\* classified[mask] = value on a 1-D array
Assign(classified, mask, value) ==
    [i \in DOMAIN classified |-> IF mask[i] THEN value ELSE classified[i]]

\* np.zeros_like(array, dtype=np.uint8)
zeros_like(array) == [i \in DOMAIN array |-> 0]

ClassNames == {"very_low", "low", "moderate", "high"}

\* The five masked assignments shared by classify_risk and classify_exposure;
\* thresholds[...] of a missing key raises KeyError.
FiveBins(array, thresholds) ==
    IF ~(ClassNames \subseteq DOMAIN thresholds)
    THEN [error |-> "KeyError", ret |-> <<>>]
    ELSE
    LET c0 == zeros_like(array)
        c1 == Assign(c0, [i \in DOMAIN array |-> RLe(array[i], thresholds["very_low"])], 1)
        c2 == Assign(c1, [i \in DOMAIN array |->
                  RGt(array[i], thresholds["very_low"]) /\ RLe(array[i], thresholds["low"])], 2)
        c3 == Assign(c2, [i \in DOMAIN array |->
                  RGt(array[i], thresholds["low"]) /\ RLe(array[i], thresholds["moderate"])], 3)
        c4 == Assign(c3, [i \in DOMAIN array |->
                  RGt(array[i], thresholds["moderate"]) /\ RLe(array[i], thresholds["high"])], 4)
        c5 == Assign(c4, [i \in DOMAIN array |-> RGt(array[i], thresholds["high"])], 5)
    IN  [error |-> "none", ret |-> c5]

classify_risk(risk_array, thresholds) == FiveBins(risk_array, thresholds)

\* Mutant of classify_exposure: the first bin is open (< instead of <=).
classify_exposure_OpenFirstBin(exposure, thresholds) ==
    IF ~(ClassNames \subseteq DOMAIN thresholds)
    THEN [error |-> "KeyError", ret |-> <<>>]
    ELSE [error |-> "none",
          ret |-> Assign(FiveBins(exposure, thresholds).ret,
                         [i \in DOMAIN exposure |-> exposure[i] = thresholds["very_low"]], 0)]

classify_exposure(exposure, thresholds) == FiveBins(exposure, thresholds)

\* class_mapping and sorted_classes[:-1] of classify_susceptibility
sorted_classes == <<"very_low", "low", "moderate", "high">>
class_mapping == [very_low |-> 1, low |-> 2, moderate |-> 3, high |-> 4, very_high |-> 5]

\* thresholds.get(prev_class, 0)
GetOrZero(thresholds, name) ==
    IF name \in DOMAIN thresholds THEN thresholds[name] ELSE Rat(0, 1)

\* The loop of classify_susceptibility from index i on.
RECURSIVE SusceptibilityLoop(_, _, _, _)
SusceptibilityLoop(classified, probabilities, thresholds, i) ==
    IF i > Len(sorted_classes) THEN classified
    ELSE LET class_name == sorted_classes[i]
             next ==
                 IF class_name \in DOMAIN thresholds
                 THEN LET threshold == thresholds[class_name]
                          mask == IF i = 1
                                  THEN [k \in DOMAIN probabilities |->
                                           RLe(probabilities[k], threshold)]
                                  ELSE LET prev_threshold ==
                                               GetOrZero(thresholds, sorted_classes[i - 1])
                                       IN  [k \in DOMAIN probabilities |->
                                               RGt(probabilities[k], prev_threshold)
                                               /\ RLe(probabilities[k], threshold)]
                      IN  Assign(classified, mask, class_mapping[class_name])
                 ELSE classified
         IN  SusceptibilityLoop(next, probabilities, thresholds, i + 1)

classify_susceptibility(probabilities, thresholds) ==
    LET looped == SusceptibilityLoop(zeros_like(probabilities), probabilities, thresholds, 1)
    IN  [error |-> "none",
         ret |-> IF "high" \in DOMAIN thresholds
                 THEN Assign(looped,
                             [k \in DOMAIN probabilities |->
                                 RGt(probabilities[k], thresholds["high"])],
                             class_mapping["very_high"])
                 ELSE looped]

\* ---------------------------------------------------------- classify_raster
\* Python sorts the keys as strings: "high" < "low" < "moderate" < "very_low".
AlphaOrder == <<"high", "low", "moderate", "very_low">>
\* The order in which every threshold table of the repository lists its
\* entries; a dict keeps it, and sorted() is stable on equal values.
InsertionOrder == <<"very_low", "low", "moderate", "high">>

IndexIn(seq, x) == CHOOSE i \in DOMAIN seq : seq[i] = x

\* class_values = {name: i+1 for i, name in enumerate(sorted(thresholds.keys()))}
default_class_values(thresholds) ==
    [name \in DOMAIN thresholds |->
        1 + Cardinality({m \in DOMAIN thresholds :
                            IndexIn(AlphaOrder, m) < IndexIn(AlphaOrder, name)})]

\* sorted(thresholds.items(), key=lambda x: x[1]) as the sequence of names
RECURSIVE SortByValue(_, _)
SortByValue(thresholds, names) ==
    IF names = {} THEN <<>>
    ELSE LET first == CHOOSE m \in names : \A o \in names :
                          \/ RLt(thresholds[m], thresholds[o])
                          \/ /\ thresholds[m] = thresholds[o]
                             /\ IndexIn(InsertionOrder, m) <= IndexIn(InsertionOrder, o)
         IN  <<first>> \o SortByValue(thresholds, names \ {first})

RECURSIVE RasterLoop(_, _, _, _, _, _)
RasterLoop(classified, continuous_array, thresholds, class_values, sorted_thresholds, i) ==
    IF i > Len(sorted_thresholds) THEN classified
    ELSE LET threshold == thresholds[sorted_thresholds[i]]
             mask == IF i = 1
                     THEN [k \in DOMAIN continuous_array |->
                              RLe(continuous_array[k], threshold)]
                     ELSE LET prev_threshold == thresholds[sorted_thresholds[i - 1]]
                          IN  [k \in DOMAIN continuous_array |->
                                  RGt(continuous_array[k], prev_threshold)
                                  /\ RLe(continuous_array[k], threshold)]
         IN  RasterLoop(Assign(classified, mask, class_values[sorted_thresholds[i]]),
                        continuous_array, thresholds, class_values, sorted_thresholds, i + 1)

SetMaxOf(S) == CHOOSE x \in S : \A y \in S : x >= y

\* classify_raster with class_values=None
classify_raster(continuous_array, thresholds) ==
    LET class_values == default_class_values(thresholds)
        sorted_thresholds == SortByValue(thresholds, DOMAIN thresholds)
        looped == RasterLoop(zeros_like(continuous_array), continuous_array, thresholds,
                             class_values, sorted_thresholds, 1)
    IN  [error |-> "none",
         ret |-> IF Len(sorted_thresholds) > 0
                 THEN LET highest_threshold ==
                              thresholds[sorted_thresholds[Len(sorted_thresholds)]]
                          max_class == SetMaxOf({class_values[m] : m \in DOMAIN thresholds})
                      IN  Assign(looped,
                                 [k \in DOMAIN continuous_array |->
                                     RGt(continuous_array[k], highest_threshold)],
                                 max_class)
                 ELSE looped]

\* ------------------------------------------------- the classifier harness
\* The sample array holds every multiple of 1/5 from -1/5 to (MaxTick+1)/5
\* in ascending order, then the nodata sentinel and NaN.
SampleArray ==
    [i \in 1 .. MaxTick + 3 |-> Tick(i - 2)] \o <<RNoData, RNaN>>

\* Threshold tables: every assignment of bounds k/5, 0 <= k <= MaxTick, to a
\* subset of the four class names.
ThresholdTables ==
    UNION {[S -> {Tick(k) : k \in 0 .. MaxTick}] : S \in SUBSET ClassNames}

Classifiers == {"classify_risk", "classify_exposure", "classify_susceptibility",
                "classify_raster"}

ClassInit ==
    /\ cl_array = SampleArray
    /\ cl_thresholds \in ThresholdTables
    /\ cl_out = [f \in Classifiers |-> <<>>]

CallClassifyRisk ==
    /\ cl_out["classify_risk"] = <<>>
    /\ cl_out' = [cl_out EXCEPT !["classify_risk"] =
                     <<classify_risk(cl_array, cl_thresholds)>>]
    /\ UNCHANGED <<cl_array, cl_thresholds>>
    /\ UNCHANGED notClass

CallClassifyExposure ==
    /\ cl_out["classify_exposure"] = <<>>
    /\ cl_out' = [cl_out EXCEPT !["classify_exposure"] =
                     <<classify_exposure(cl_array, cl_thresholds)>>]
    /\ UNCHANGED <<cl_array, cl_thresholds>>
    /\ UNCHANGED notClass

CallClassifySusceptibility ==
    /\ cl_out["classify_susceptibility"] = <<>>
    /\ cl_out' = [cl_out EXCEPT !["classify_susceptibility"] =
                     <<classify_susceptibility(cl_array, cl_thresholds)>>]
    /\ UNCHANGED <<cl_array, cl_thresholds>>
    /\ UNCHANGED notClass

CallClassifyRaster ==
    /\ cl_out["classify_raster"] = <<>>
    /\ cl_out' = [cl_out EXCEPT !["classify_raster"] =
                     <<classify_raster(cl_array, cl_thresholds)>>]
    /\ UNCHANGED <<cl_array, cl_thresholds>>
    /\ UNCHANGED notClass

ClassNext ==
    CallClassifyRisk \/ CallClassifyExposure \/ CallClassifySusceptibility
        \/ CallClassifyRaster

\* ================================================== the classifier claims
\* Bounds strictly increasing in the order very_low, low, moderate, high.
StrictlyIncreasing(thresholds) ==
    /\ DOMAIN thresholds = ClassNames
    /\ RLt(thresholds["very_low"], thresholds["low"])
    /\ RLt(thresholds["low"], thresholds["moderate"])
    /\ RLt(thresholds["moderate"], thresholds["high"])

\* The class the specification gives a finite value: the first bin in
\* ascending order whose upper bound is >= v, else 5.
FirstBin(v, thresholds) ==
    IF RLe(v, thresholds["very_low"]) THEN 1
    ELSE IF RLe(v, thresholds["low"]) THEN 2
    ELSE IF RLe(v, thresholds["moderate"]) THEN 3
    ELSE IF RLe(v, thresholds["high"]) THEN 4
    ELSE 5

FiveClassifiers == {"classify_risk", "classify_exposure", "classify_susceptibility"}

\* C8: with very_low < low < moderate < high, classify_risk,
\* classify_exposure and classify_susceptibility each give every finite
\* value the class of the first bin whose upper bound is >= the value, 5
\* above the last bound, and the three return the same classes.
C8_FirstBinAndAgreement ==
    StrictlyIncreasing(cl_thresholds) =>
        /\ \A f \in FiveClassifiers :
              cl_out[f] /= <<>> =>
                  /\ cl_out[f][1].error = "none"
                  /\ \A i \in DOMAIN cl_array :
                        ~RIsNaN(cl_array[i]) =>
                            cl_out[f][1].ret[i] = FirstBin(cl_array[i], cl_thresholds)
        /\ \A f, g \in FiveClassifiers :
              (cl_out[f] /= <<>> /\ cl_out[g] /= <<>>) => cl_out[f][1].ret = cl_out[g][1].ret

C8_Witness ==
    /\ StrictlyIncreasing(cl_thresholds)
    /\ \A f \in FiveClassifiers : cl_out[f] /= <<>>
    /\ \E i, j \in DOMAIN cl_array :
          /\ cl_array[i] = cl_thresholds["low"]
          /\ cl_out["classify_susceptibility"][1].ret[i] = 2
          /\ cl_out["classify_exposure"][1].ret[j] = 5

\* Bounds of a table (any subset of the names) strictly increasing along the
\* order in which the table lists them.
SchemeIncreasing(thresholds) ==
    \A m, o \in DOMAIN thresholds :
        IndexIn(InsertionOrder, m) < IndexIn(InsertionOrder, o)
            => RLt(thresholds[m], thresholds[o])

\* C9 (as claimed): for a scheme with strictly increasing bounds,
\* classify_raster with its default class values gives labels that do not
\* decrease as the value grows, and values above the last bound get a label
\* greater than the label of every explicit bin.
C9_MonotoneLabels ==
    (cl_out["classify_raster"] /= <<>> /\ cl_thresholds /= <<>>
        /\ SchemeIncreasing(cl_thresholds)) =>
        LET out == cl_out["classify_raster"][1].ret
            finite == {i \in DOMAIN cl_array :
                          ~RIsNaN(cl_array[i]) /\ cl_array[i] /= RNoData}
            last == SetMaxOf({IndexIn(InsertionOrder, m) : m \in DOMAIN cl_thresholds})
            top == cl_thresholds[InsertionOrder[last]]
        IN  /\ \A i, j \in finite :
                  RLe(cl_array[i], cl_array[j]) => out[i] <= out[j]
            /\ \A i, j \in finite :
                  (RGt(cl_array[i], top) /\ RLe(cl_array[j], top)) => out[i] > out[j]

\* C21 (as claimed): a classifier given a table of the four bounds that is
\* not strictly increasing raises an error and produces no classified
\* grid.
C21_NonIncreasingBoundsRejected ==
    (DOMAIN cl_thresholds = ClassNames /\ ~StrictlyIncreasing(cl_thresholds)) =>
        \A f \in Classifiers :
            cl_out[f] /= <<>> =>
                cl_out[f][1].error /= "none" /\ cl_out[f][1].ret = <<>>

\* ================================================= run_landslide_pipeline
\* classification_thresholds of LANDSLIDE_CONFIG and MULTI_HAZARD_CONFIG
ConfigThresholds ==
    [very_low |-> Tick(1), low |-> Tick(2), moderate |-> Tick(3), high |-> Tick(4)]

\* The bands stacked when landcover and rainfall are absent.
Bands == <<"slope", "aspect", "curvature">>

\* Feature stacks: every sample valid, or one sample of one pixel NaN or
\* -9999, or every sample -9999.
ValidStack == [i \in 1 .. LsPixels |-> [b \in DOMAIN Bands |-> Tick(b)]]
Stacks ==
    {ValidStack, [i \in 1 .. LsPixels |-> [b \in DOMAIN Bands |-> RNoData]]}
        \cup {[ValidStack EXCEPT ![i][b] = v] :
                 i \in 1 .. LsPixels, b \in DOMAIN Bands, v \in {RNaN, RNoData}}

\* valid_mask of extract_features_for_prediction:
\* ~np.any(np.isnan(features_2d), axis=1) & ~np.any(features_2d == -9999, axis=1)
features_valid_mask(features_2d) ==
    [i \in DOMAIN features_2d |->
        /\ ~(\E b \in DOMAIN features_2d[i] : RIsNaN(features_2d[i][b]))
        /\ ~(\E b \in DOMAIN features_2d[i] : features_2d[i][b] = RNoData)]

\* What the classifier may answer for a pixel: any probability k/5.
Probabilities == {Tick(k) : k \in 0 .. MaxTick}

LsInit ==
    /\ ls_pc = "terrain"
    /\ ls_args \in [train_new_model : BOOLEAN, inventory_exists : BOOLEAN,
                    model_exists : BOOLEAN]
    /\ ls_stack \in Stacks
    /\ ls_files = {}
    /\ ls_prob = <<>>
    /\ ls_classified = <<>>
    /\ ls_error = "none"

\* STEP 1: extract_terrain_features writes the three derivative rasters.
LsExtractTerrain ==
    /\ ls_pc = "terrain"
    /\ ls_files' = ls_files \cup {"slope.tif", "aspect.tif", "curvature.tif"}
    /\ ls_pc' = "stack"
    /\ UNCHANGED <<ls_args, ls_stack, ls_prob, ls_classified, ls_error>>
    /\ UNCHANGED notLs

\* STEP 2: stack_features writes the feature stack.
LsStackFeatures ==
    /\ ls_pc = "stack"
    /\ ls_files' = ls_files \cup {"landslide_features_stack.tif"}
    /\ ls_pc' = "model"
    /\ UNCHANGED <<ls_args, ls_stack, ls_prob, ls_classified, ls_error>>
    /\ UNCHANGED notLs

\* Mutant of LsTrainOrLoad: the existence of the inventory and of the model
\* file is not checked.
LsTrainOrLoad_NoCheck ==
    /\ ls_pc = "model"
    /\ ls_pc' = "predict"
    /\ ls_files' = IF ls_args.train_new_model THEN ls_files \cup {"landslide_model.pkl"}
                   ELSE ls_files
    /\ UNCHANGED <<ls_args, ls_stack, ls_prob, ls_classified, ls_error>>
    /\ UNCHANGED notLs

\* STEP 3: train a new model (the inventory must exist) or load the saved
\* one (the model file must exist).
LsTrainOrLoad ==
    /\ ls_pc = "model"
    /\ IF ls_args.train_new_model
       THEN IF ~ls_args.inventory_exists
            THEN /\ ls_pc' = "failed"
                 /\ ls_error' = "FileNotFoundError"
                 /\ UNCHANGED ls_files
            ELSE /\ ls_pc' = "predict"
                 /\ ls_files' = ls_files \cup {"landslide_model.pkl"}
                 /\ UNCHANGED ls_error
       ELSE IF ~ls_args.model_exists
            THEN /\ ls_pc' = "failed"
                 /\ ls_error' = "FileNotFoundError"
                 /\ UNCHANGED ls_files
            ELSE /\ ls_pc' = "predict"
                 /\ UNCHANGED <<ls_files, ls_error>>
    /\ UNCHANGED <<ls_args, ls_stack, ls_prob, ls_classified>>
    /\ UNCHANGED notLs

\* STEP 4: probabilities_flat = np.zeros(n); probabilities_flat[valid_mask] =
\* model.predict_proba(features_2d[valid_mask]); save_cog(..., nodata=0).
\* The classifier is a black box: any probability per valid pixel. scikit-learn
\* rejects an empty feature matrix with ValueError.
LsPredict ==
    /\ ls_pc = "predict"
    /\ LET valid == features_valid_mask(ls_stack)
       IN  IF \A i \in DOMAIN ls_stack : ~valid[i]
           THEN /\ ls_pc' = "failed"
                /\ ls_error' = "ValueError"
                /\ UNCHANGED <<ls_prob, ls_files>>
           ELSE /\ \E predicted \in [DOMAIN ls_stack -> Probabilities] :
                      ls_prob' = [i \in DOMAIN ls_stack |->
                                     IF valid[i] THEN predicted[i] ELSE Rat(0, 1)]
                /\ ls_files' = ls_files \cup {"landslide_susceptibility_probability.tif"}
                /\ ls_pc' = "classify"
                /\ UNCHANGED ls_error
    /\ UNCHANGED <<ls_args, ls_stack, ls_classified>>
    /\ UNCHANGED notLs

\* STEP 5: classify_susceptibility with the configured thresholds;
\* save_cog(classified, ..., nodata=0).
LsClassify ==
    /\ ls_pc = "classify"
    /\ ls_classified' = classify_susceptibility(ls_prob, ConfigThresholds).ret
    /\ ls_files' = ls_files \cup {"landslide_susceptibility_classified.tif"}
    /\ ls_pc' = "geojson"
    /\ UNCHANGED <<ls_args, ls_stack, ls_prob, ls_error>>
    /\ UNCHANGED notLs

\* STEP 6: raster_to_geojson writes the zones file; the run returns.
LsToGeoJSON ==
    /\ ls_pc = "geojson"
    /\ ls_files' = ls_files \cup {"landslide_susceptibility_zones.geojson"}
    /\ ls_pc' = "done"
    /\ UNCHANGED <<ls_args, ls_stack, ls_prob, ls_classified, ls_error>>
    /\ UNCHANGED notLs

LsNext ==
    LsExtractTerrain \/ LsStackFeatures \/ LsTrainOrLoad \/ LsPredict \/ LsClassify
        \/ LsToGeoJSON

\* C7 (as claimed): in a finished landslide run every pixel whose feature
\* vector is invalid (NaN or -9999 in any band) has class 0 in the
\* classified raster.
C7_InvalidPixelsClassZero ==
    ls_pc = "done" =>
        \A i \in DOMAIN ls_stack :
            ~features_valid_mask(ls_stack)[i] => ls_classified[i] = 0

\* The collaborator input the run needs is absent.
DependencyMissing ==
    IF ls_args.train_new_model THEN ~ls_args.inventory_exists ELSE ~ls_args.model_exists

\* C25: a landslide run whose inventory (when training) or saved model
\* (when loading) is absent ends with FileNotFoundError once it is past
\* step 3; the three terrain files and the feature stack are then on disk
\* and none of the probability, classified and zones outputs is.
C25_MissingDependencyFails ==
    (ls_pc \notin {"idle", "terrain", "stack", "model"} /\ DependencyMissing) =>
        /\ ls_pc = "failed"
        /\ ls_error = "FileNotFoundError"
        /\ {"slope.tif", "aspect.tif", "curvature.tif", "landslide_features_stack.tif"}
               \subseteq ls_files
        /\ ls_files \cap {"landslide_susceptibility_probability.tif",
                          "landslide_susceptibility_classified.tif",
                          "landslide_susceptibility_zones.geojson"} = {}

C25_Witness ==
    /\ ls_pc = "failed"
    /\ ls_error = "FileNotFoundError"
    /\ ~ls_args.train_new_model
    /\ ~ls_args.model_exists
    /\ "landslide_features_stack.tif" \in ls_files

\* ========================================================= combine_hazards
\* float arithmetic of NumPy on exact rationals: NaN propagates
RAdd(a, b) == IF RIsNaN(a) \/ RIsNaN(b) THEN RNaN ELSE Rat(a.n * b.d + b.n * a.d, a.d * b.d)
RSub(a, b) == IF RIsNaN(a) \/ RIsNaN(b) THEN RNaN ELSE Rat(a.n * b.d - b.n * a.d, a.d * b.d)
RMul(a, b) == IF RIsNaN(a) \/ RIsNaN(b) THEN RNaN ELSE Rat(a.n * b.n, a.d * b.d)
\* a / b; the only division of arrays is by max - min > 0
RDiv(a, b) ==
    IF RIsNaN(a) \/ RIsNaN(b) \/ b.n = 0 THEN RNaN
    ELSE Rat(a.n * b.d * (IF b.n < 0 THEN -1 ELSE 1), a.d * Abs(b.n))

\* array.min() and array.max(): NaN if any sample is NaN
array_min(array) ==
    IF \E i \in DOMAIN array : RIsNaN(array[i]) THEN RNaN
    ELSE LET i == CHOOSE i \in DOMAIN array : \A j \in DOMAIN array : RLe(array[i], array[j])
         IN  array[i]
array_max(array) ==
    IF \E i \in DOMAIN array : RIsNaN(array[i]) THEN RNaN
    ELSE LET i == CHOOSE i \in DOMAIN array : \A j \in DOMAIN array : RLe(array[j], array[i])
         IN  array[i]

\* Mutant of min_max: the divisor is max instead of max - min.
min_max_OverMax(array) ==
    LET min_val == array_min(array)
        max_val == array_max(array)
    IN  IF RGt(max_val, min_val)
        THEN [i \in DOMAIN array |-> RDiv(RSub(array[i], min_val), max_val)]
        ELSE array

\* method "min_max": (array - min) / (max - min) when max > min, the array
\* itself otherwise. min and max are taken over every sample of the array.
min_max(array) ==
    LET min_val == array_min(array)
        max_val == array_max(array)
    IN  IF RGt(max_val, min_val)
        THEN [i \in DOMAIN array |-> RDiv(RSub(array[i], min_val), RSub(max_val, min_val))]
        ELSE array

\* array.mean() and the square of array.std(), over every sample
RECURSIVE array_sum(_)
array_sum(array) ==
    IF array = <<>> THEN Rat(0, 1) ELSE RAdd(Head(array), array_sum(Tail(array)))
array_mean(array) == RDiv(array_sum(array), Rat(Len(array), 1))
array_var(array) ==
    LET mean == array_mean(array)
    IN  array_mean([i \in DOMAIN array |->
                       RMul(RSub(array[i], mean), RSub(array[i], mean))])

\* method "z_score": np.clip((array - mean) / std, 0, 1) when std > 0, the
\* array itself otherwise. A sample strictly between 0 and 1 is the square
\* root of a rational and is kept as [sqrt |-> that rational].
z_score(array) ==
    LET mean == array_mean(array)
        var == array_var(array)
    IN  IF RGt(var, Rat(0, 1))
        THEN [i \in DOMAIN array |->
                 LET d == RSub(array[i], mean)
                 IN  IF RLe(d, Rat(0, 1)) THEN Rat(0, 1)
                     ELSE IF RLe(var, RMul(d, d)) THEN Rat(1, 1)
                     ELSE [sqrt |-> RDiv(RMul(d, d), var)]]
        ELSE array

\* normalize_raster(array, method)
normalize_raster(array, method) ==
    IF method = "min_max" THEN [error |-> "none", ret |-> min_max(array)]
    ELSE IF method = "z_score" THEN [error |-> "none", ret |-> z_score(array)]
    ELSE [error |-> "ValueError", ret |-> <<>>]

\* MULTI_HAZARD_CONFIG['normalization_method']
NormalizationMethod == "min_max"

\* sum(weights.values())
RECURSIVE SumValues(_)
SumValues(weights) ==
    IF DOMAIN weights = {} THEN 0
    ELSE LET k == CHOOSE k \in DOMAIN weights : TRUE
         IN  weights[k] + SumValues([j \in DOMAIN weights \ {k} |-> weights[j]])

\* MULTI_HAZARD_CONFIG["weights"] (0.4, 0.4, 0.2) in units of 0.2
DefaultWeights == [landslide |-> 2, flood |-> 2, exposure |-> 1]

\* a1 * x + a2 * y (+ a3 * z), sample by sample
Weighted(coeffs, layers) ==
    [i \in DOMAIN layers[1] |->
        IF Len(coeffs) = 2
        THEN RAdd(RMul(coeffs[1].coeff, layers[1][i]), RMul(coeffs[2].coeff, layers[2][i]))
        ELSE RAdd(RAdd(RMul(coeffs[1].coeff, layers[1][i]),
                       RMul(coeffs[2].coeff, layers[2][i])),
                  RMul(coeffs[3].coeff, layers[3][i]))]

\* combine_hazards up to the weighted sum: the coefficients applied and
\* the risk array, or the exception raised. Line 95 reads
\* weights['landslide'] and weights['flood'] first; with exposure the
\* total is the sum of every value of the table, without it the sum of
\* the landslide and flood entries.
\* Mutant of combine_hazards: without exposure the divisor is also the sum
\* of every entry of the table.
combine_hazards_TotalOfTable(landslide, flood, exposure, weights) ==
    LET failed(e) == [error |-> e, coeffs |-> <<>>, ret |-> <<>>]
        landslide_norm == normalize_raster(landslide, NormalizationMethod).ret
        flood_norm == normalize_raster(flood, NormalizationMethod).ret
    IN  IF ~({"landslide", "flood"} \subseteq DOMAIN weights) THEN failed("KeyError")
        ELSE IF exposure /= <<>>
        THEN LET total_weight == SumValues(weights)
             IN  IF total_weight = 0 THEN failed("ZeroDivisionError")
                 ELSE IF "exposure" \notin DOMAIN weights THEN failed("KeyError")
                 ELSE LET coeffs == <<[layer |-> "landslide", coeff |-> Rat(weights["landslide"], total_weight)],
                                      [layer |-> "flood", coeff |-> Rat(weights["flood"], total_weight)],
                                      [layer |-> "exposure", coeff |-> Rat(weights["exposure"], total_weight)]>>
                      IN  [error |-> "none", coeffs |-> coeffs,
                           ret |-> Weighted(coeffs, <<landslide_norm, flood_norm,
                                                      normalize_raster(exposure[1], NormalizationMethod).ret>>)]
        ELSE LET total_weight == SumValues(weights)
             IN  IF total_weight = 0 THEN failed("ZeroDivisionError")
                 ELSE LET coeffs == <<[layer |-> "landslide", coeff |-> Rat(weights["landslide"], total_weight)],
                                      [layer |-> "flood", coeff |-> Rat(weights["flood"], total_weight)]>>
                      IN  [error |-> "none", coeffs |-> coeffs,
                           ret |-> Weighted(coeffs, <<landslide_norm, flood_norm>>)]

combine_hazards(landslide, flood, exposure, weights) ==
    LET failed(e) == [error |-> e, coeffs |-> <<>>, ret |-> <<>>]
        landslide_norm == normalize_raster(landslide, NormalizationMethod).ret
        flood_norm == normalize_raster(flood, NormalizationMethod).ret
    IN  IF ~({"landslide", "flood"} \subseteq DOMAIN weights) THEN failed("KeyError")
        ELSE IF exposure /= <<>>
        THEN LET total_weight == SumValues(weights)
             IN  IF total_weight = 0 THEN failed("ZeroDivisionError")
                 ELSE IF "exposure" \notin DOMAIN weights THEN failed("KeyError")
                 ELSE LET coeffs == <<[layer |-> "landslide", coeff |-> Rat(weights["landslide"], total_weight)],
                                      [layer |-> "flood", coeff |-> Rat(weights["flood"], total_weight)],
                                      [layer |-> "exposure", coeff |-> Rat(weights["exposure"], total_weight)]>>
                      IN  [error |-> "none", coeffs |-> coeffs,
                           ret |-> Weighted(coeffs, <<landslide_norm, flood_norm,
                                                      normalize_raster(exposure[1], NormalizationMethod).ret>>)]
        ELSE LET total_weight == weights["landslide"] + weights["flood"]
             IN  IF total_weight = 0 THEN failed("ZeroDivisionError")
                 ELSE LET coeffs == <<[layer |-> "landslide", coeff |-> Rat(weights["landslide"], total_weight)],
                                      [layer |-> "flood", coeff |-> Rat(weights["flood"], total_weight)]>>
                      IN  [error |-> "none", coeffs |-> coeffs,
                           ret |-> Weighted(coeffs, <<landslide_norm, flood_norm>>)]

\* ------------------------------------------ run_multi_hazard_integration
\* Input rasters: landslide probabilities, a 0/1 flood mask, and an
\* exposure index or none.
LayerSamples == {Tick(0), Tick(2), Tick(5)}
LandslideRasters == [1 .. MhPixels -> LayerSamples]
FloodRasters == [1 .. MhPixels -> {Rat(0, 1), Rat(1, 1)}]
ExposureRasters == {<<>>} \cup {<<e>> : e \in LandslideRasters}
ReferenceLandslide == [i \in 1 .. MhPixels |-> IF i = 1 THEN Tick(0) ELSE Tick(5)]
ReferenceFlood == [i \in 1 .. MhPixels |-> IF i = 1 THEN Rat(1, 1) ELSE Rat(0, 1)]

\* Weight tables: non-negative weights for any subset of the three layer
\* names and one further entry.
WeightKeys == {"landslide", "flood", "exposure", "population"}
WeightTables == UNION {[K -> 0 .. MaxWeight] : K \in SUBSET WeightKeys}

\* Either the configured weights with any rasters, or any weight table
\* with the reference rasters.
MhInit ==
    /\ mh_pc = "combine"
    /\ \/ /\ mh_weights = DefaultWeights
          /\ mh_in \in [landslide : LandslideRasters, flood : FloodRasters,
                        exposure : ExposureRasters]
       \/ /\ mh_weights \in WeightTables
          /\ mh_in \in [landslide : {ReferenceLandslide}, flood : {ReferenceFlood},
                        exposure : {<<>>, <<ReferenceLandslide>>}]
    /\ mh_coeffs = <<>>
    /\ mh_risk = <<>>
    /\ mh_classified = <<>>
    /\ mh_files = {}
    /\ mh_error = "none"

\* combine_hazards: the weighted sum, then save_cog of the risk index.
MhCombine ==
    /\ mh_pc = "combine"
    /\ LET r == combine_hazards(mh_in.landslide, mh_in.flood, mh_in.exposure, mh_weights)
       IN  IF r.error /= "none"
           THEN /\ mh_pc' = "failed"
                /\ mh_error' = r.error
                /\ UNCHANGED <<mh_coeffs, mh_risk, mh_files>>
           ELSE /\ mh_pc' = "classify"
                /\ mh_coeffs' = r.coeffs
                /\ mh_risk' = r.ret
                /\ mh_files' = mh_files \cup {"multi_hazard_risk.tif"}
                /\ UNCHANGED mh_error
    /\ UNCHANGED <<mh_in, mh_weights, mh_classified>>
    /\ UNCHANGED notMh

\* classify_risk(risk) with the configured thresholds;
\* save_cog(classified, ..., nodata=0).
MhClassify ==
    /\ mh_pc = "classify"
    /\ mh_classified' = classify_risk(mh_risk, ConfigThresholds).ret
    /\ mh_files' = mh_files \cup {"multi_hazard_risk_classified.tif"}
    /\ mh_pc' = "geojson"
    /\ UNCHANGED <<mh_in, mh_weights, mh_coeffs, mh_risk, mh_error>>
    /\ UNCHANGED notMh

\* raster_to_geojson writes the zones file; the run returns.
MhToGeoJSON ==
    /\ mh_pc = "geojson"
    /\ mh_files' = mh_files \cup {"multi_hazard_risk.geojson"}
    /\ mh_pc' = "done"
    /\ UNCHANGED <<mh_in, mh_weights, mh_coeffs, mh_risk, mh_classified, mh_error>>
    /\ UNCHANGED notMh

MhNext == MhCombine \/ MhClassify \/ MhToGeoJSON

\* The layers supplied to the combination.
Supplied == IF mh_in.exposure = <<>> THEN {"landslide", "flood"}
            ELSE {"landslide", "flood", "exposure"}

RECURSIVE CoeffSum(_)
CoeffSum(coeffs) ==
    IF coeffs = <<>> THEN Rat(0, 1) ELSE RAdd(Head(coeffs).coeff, CoeffSum(Tail(coeffs)))

\* C10 (as claimed): once combine_hazards has run with a table of
\* non-negative weights that has an entry for every supplied layer (and a
\* positive weight on at least one of them), the coefficients applied are
\* those of exactly the supplied layers and sum to 1.
C10_CoefficientsSumToOne ==
    (/\ mh_pc \notin {"idle", "combine"}
     /\ Supplied \subseteq DOMAIN mh_weights
     /\ \E k \in Supplied : mh_weights[k] > 0)
        => /\ mh_error = "none"
           /\ {mh_coeffs[j].layer : j \in DOMAIN mh_coeffs} = Supplied
           /\ CoeffSum(mh_coeffs) = Rat(1, 1)

\* C11: when the exposure layer is absent, combine_hazards gives the same
\* outcome (risk grid or exception) for every other weight table that has
\* the same landslide and flood entries, whatever its exposure entry is
\* and whether it has one.
HazardEntries(weights) ==
    [k \in DOMAIN weights \cap {"landslide", "flood"} |-> weights[k]]
OtherEntries ==
    UNION {[K -> 0 .. MaxWeight] : K \in SUBSET (WeightKeys \ {"landslide", "flood"})}

C11_ExposureEntryIgnored ==
    (mh_pc \notin {"idle", "combine"} /\ mh_in.exposure = <<>>) =>
        \A o \in OtherEntries :
            LET r == combine_hazards(mh_in.landslide, mh_in.flood, <<>>,
                                     HazardEntries(mh_weights) @@ o)
            IN  r.error = mh_error /\ r.ret = mh_risk

C11_Witness ==
    /\ mh_pc = "done"
    /\ mh_in.exposure = <<>>
    /\ "exposure" \in DOMAIN mh_weights
    /\ mh_weights["exposure"] > 0
    /\ \E i, j \in DOMAIN mh_risk : mh_risk[i] /= mh_risk[j]

\* ====================================================== normalize_raster
\* Grids handed to normalize_raster: small values, the nodata value -9999
\* and NaN. The grids normalized by z_score hold no -9999, so that the
\* variance stays within the integers of the checker.
SmallSamples == {Rat(-1, 1), Rat(0, 1), Rat(1, 2), Rat(3, 1)}
NormalizeArgs ==
    [array : [1 .. NzLen -> SmallSamples \cup {RNoData, RNaN}], method : {"min_max"}]
        \cup [array : [1 .. NzLen -> SmallSamples \cup {RNaN}], method : {"z_score"}]
        \cup [array : [1 .. NzLen -> SmallSamples], method : {"log"}]

NormalizeInit ==
    /\ fc_fn = "normalize_raster"
    /\ fc_args \in NormalizeArgs
    /\ fc_out = <<>>

CallNormalizeRaster ==
    /\ fc_fn = "normalize_raster"
    /\ fc_out = <<>>
    /\ fc_out' = <<normalize_raster(fc_args.array, fc_args.method)>>
    /\ UNCHANGED <<fc_fn, fc_args>>
    /\ UNCHANGED notCall

\* A min_max call that has returned.
MinMaxReturned ==
    fc_fn = "normalize_raster" /\ fc_out /= <<>> /\ fc_args.method = "min_max"

InUnitRange(v) == RLe(Rat(0, 1), v) /\ RLe(v, Rat(1, 1))

ValidPositions(array) ==
    {i \in DOMAIN array : ~RIsNaN(array[i]) /\ array[i] /= RNoData}

\* C13 (as claimed): min_max on a grid whose valid samples are all equal
\* returns the input unchanged, without an error.
C13_ConstantGridUnchanged ==
    (/\ MinMaxReturned
     /\ \A i, j \in ValidPositions(fc_args.array) : fc_args.array[i] = fc_args.array[j])
        => fc_out[1].error = "none" /\ fc_out[1].ret = fc_args.array

\* The grid without its nodata samples.
WithoutNoData(array) == SelectSeq(array, LAMBDA v : v /= RNoData)

\* C14 (as claimed): the normalized value of a valid sample is the one it
\* gets when the nodata samples are not in the grid at all.
C14_StatisticsOverValidOnly ==
    (fc_fn = "normalize_raster" /\ fc_out /= <<>> /\ fc_out[1].error = "none") =>
        \A i \in ValidPositions(fc_args.array) :
            LET valid_only == WithoutNoData(fc_args.array)
                expected == normalize_raster(valid_only, fc_args.method).ret
            IN  \A j \in DOMAIN valid_only :
                    valid_only[j] = fc_args.array[i] => expected[j] = fc_out[1].ret[i]

\* ====================================================== raster_to_geojson
\* rasterio.features.shapes(image, mask=mask): one (geometry, value) pair
\* per maximal connected region of equal value among the pixels where the
\* mask is true, regions being joined through edges (connectivity 4). A
\* geometry is kept as the set of pixels its polygon covers.
Neighbours4(p) == structure(p) \ {p}
Neighbours8(p) ==
    {<<p[1] + dr, p[2] + dc>> : dr \in {-1, 0, 1}, dc \in {-1, 0, 1}} \ {p}

Neighbours(p, connectivity) == IF connectivity = 4 THEN Neighbours4(p) ELSE Neighbours8(p)

RECURSIVE Grow(_, _, _, _, _)
Grow(image, mask, connectivity, region, frontier) ==
    IF frontier = {} THEN region
    ELSE LET v == image.data[CHOOSE p \in region : TRUE]
             next == {q \in UNION {Neighbours(p, connectivity) : p \in frontier} :
                         /\ q \in Pixels(image.shape)
                         /\ q \notin region
                         /\ mask[q]
                         /\ image.data[q] = v}
         IN  Grow(image, mask, connectivity, region \cup next, next)

\* The first pixel of a set in row-major order.
FirstPixel(S) ==
    CHOOSE p \in S : \A q \in S : p[1] < q[1] \/ (p[1] = q[1] /\ p[2] <= q[2])

RECURSIVE ShapesFrom(_, _, _, _)
ShapesFrom(image, mask, connectivity, todo) ==
    IF todo = {} THEN <<>>
    ELSE LET p == FirstPixel(todo)
             region == Grow(image, mask, connectivity, {p}, {p})
         IN  IF region = region
             THEN <<[geom |-> region, value |-> image.data[p]]>>
                      \o ShapesFrom(image, mask, connectivity, todo \ region)
             ELSE <<>>

\* Mutant of shapes: regions are also joined through corners.
shapes_Connectivity8(image, mask) ==
    ShapesFrom(image, mask, 8, {p \in Pixels(image.shape) : mask[p]})

shapes(image, mask) ==
    ShapesFrom(image, mask, 4, {p \in Pixels(image.shape) : mask[p]})

\* f"Class_{value}" for the class values 0 .. 5
FormatClass(value) ==
    <<"Class_0", "Class_1", "Class_2", "Class_3", "Class_4", "Class_5">>[value + 1]

\* class_names.get(value, f"Class_{value}") if class_names else f"Class_{value}"
ClassOf(class_names, value) ==
    IF class_names /= <<>> /\ value \in DOMAIN class_names[1]
    THEN class_names[1][value]
    ELSE FormatClass(value)

\* image != src.nodata; a raster without a nodata value gives a mask that
\* is true everywhere.
NotNoData(image, nodata) ==
    [p \in Pixels(image.shape) |-> nodata = <<>> \/ image.data[p] /= nodata[1]]

\* Mutant of raster_to_geojson: the nodata mask is not applied.
raster_to_geojson_NoMask(image, nodata, class_names) ==
    LET found == shapes(image, [p \in Pixels(image.shape) |-> TRUE])
    IN  [type |-> "FeatureCollection",
         features |-> [k \in DOMAIN found |->
                          [type |-> "Feature", geometry |-> found[k].geom,
                           properties |-> [value |-> found[k].value,
                                           class |-> ClassOf(class_names, found[k].value)]]]]

\* raster_to_geojson: the feature collection returned and written to
\* output_path.
raster_to_geojson(image, nodata, class_names) ==
    LET found == shapes(image, NotNoData(image, nodata))
    IN  [type |-> "FeatureCollection",
         features |-> [k \in DOMAIN found |->
                          [type |-> "Feature", geometry |-> found[k].geom,
                           properties |-> [value |-> found[k].value,
                                           class |-> ClassOf(class_names, found[k].value)]]]]

\* Classified rasters: class 1 everywhere, then a rectangle of class 0, 1
\* or 3, then possibly one more pixel of class 3.
GridShape == <<GjSize, GjSize>>
Rectangles ==
    {[top |-> t, bottom |-> b, left |-> l, right |-> r] :
        t \in 0 .. GjSize - 1, b \in 0 .. GjSize - 1,
        l \in 0 .. GjSize - 1, r \in 0 .. GjSize - 1}
InRectangle(p, rect) ==
    rect.top <= p[1] /\ p[1] <= rect.bottom /\ rect.left <= p[2] /\ p[2] <= rect.right
ClassifiedGrids ==
    {[shape |-> GridShape,
      data |-> [p \in Pixels(GridShape) |->
                   IF p \in extra THEN 3 ELSE IF InRectangle(p, rect) THEN v ELSE 1]] :
        rect \in {x \in Rectangles : x.top <= x.bottom /\ x.left <= x.right},
        v \in {0, 1, 3},
        extra \in {{}} \cup {{p} : p \in Pixels(GridShape)}}

\* The nodata value of the file and the class_names argument: nodata 0
\* with no names, with names for classes 0 and 1, or no nodata with names.
FloodClassNames == [v \in {0, 1} |-> IF v = 0 THEN "no_flood" ELSE "flood"]
GeojsonOptions ==
    {[nodata |-> <<0>>, class_names |-> <<>>],
     [nodata |-> <<0>>, class_names |-> <<FloodClassNames>>],
     [nodata |-> <<>>, class_names |-> <<FloodClassNames>>]}

GeojsonInit ==
    /\ fc_fn = "raster_to_geojson"
    /\ \E image \in ClassifiedGrids, o \in GeojsonOptions :
          fc_args = [image |-> image, nodata |-> o.nodata, class_names |-> o.class_names]
    /\ fc_out = <<>>

CallRasterToGeojson ==
    /\ fc_fn = "raster_to_geojson"
    /\ fc_out = <<>>
    /\ LET geojson == raster_to_geojson(fc_args.image, fc_args.nodata, fc_args.class_names)
       IN  fc_out' = <<[ret |-> geojson, file |-> geojson]>>
    /\ UNCHANGED <<fc_fn, fc_args>>
    /\ UNCHANGED notCall

\* A raster_to_geojson call that has returned, and what it was given.
GeojsonReturned == fc_fn = "raster_to_geojson" /\ fc_out /= <<>>
IsNoDataPixel(p) ==
    fc_args.nodata /= <<>> /\ fc_args.image.data[p] = fc_args.nodata[1]
DataPixels == {p \in Pixels(fc_args.image.shape) : ~IsNoDataPixel(p)}

\* The pixels of S that can be walked to from the pixels of `from`, moving
\* through edges inside S.
RECURSIVE Reach(_, _)
Reach(S, from) ==
    LET more == {q \in S \ from : \E p \in from : q \in Neighbours4(p)}
    IN  IF more = {} THEN from ELSE Reach(S, from \cup more)

\* C15: raster_to_geojson emits exactly one feature per maximal group of
\* edge-connected pixels of equal class: every feature covers a non-empty,
\* edge-connected set of data pixels of its value that no equal-valued
\* edge neighbour lies outside of, no feature covers a nodata pixel, no two
\* features overlap, every data pixel is in a feature, and the feature's
\* class is class_names[value] when present and Class_<value> otherwise.
C15_OneFeaturePerGroup ==
    GeojsonReturned =>
        LET features == fc_out[1].ret.features
            image == fc_args.image
        IN  /\ \A k \in DOMAIN features :
                  LET S == features[k].geometry
                      value == features[k].properties.value
                  IN  /\ S /= {}
                      /\ \A p \in S : ~IsNoDataPixel(p) /\ image.data[p] = value
                      /\ Reach(S, {CHOOSE p \in S : TRUE}) = S
                      /\ \A p \in S : \A q \in Neighbours4(p) \cap Pixels(image.shape) :
                            q \notin S => image.data[q] /= value
                      /\ features[k].properties.class =
                            IF fc_args.class_names /= <<>>
                                  /\ value \in DOMAIN fc_args.class_names[1]
                            THEN fc_args.class_names[1][value]
                            ELSE <<"Class_0", "Class_1", "Class_2", "Class_3">>[value + 1]
            /\ \A k, l \in DOMAIN features :
                  k /= l => features[k].geometry \cap features[l].geometry = {}
            /\ \A p \in DataPixels : \E k \in DOMAIN features : p \in features[k].geometry
            /\ fc_out[1].file = fc_out[1].ret

\* Two features of one class that touch only at a corner, next to a
\* nodata pixel, one class named and one not.
C15_Witness ==
    /\ GeojsonReturned
    /\ \E p \in Pixels(fc_args.image.shape) : IsNoDataPixel(p)
    /\ LET features == fc_out[1].ret.features
       IN  /\ \E k, l \in DOMAIN features :
                 /\ k /= l
                 /\ features[k].properties.value = features[l].properties.value
                 /\ \E p \in features[k].geometry, q \in features[l].geometry :
                       q \in Neighbours8(p)
           /\ \E k \in DOMAIN features : features[k].properties.class = "flood"
           /\ \E k \in DOMAIN features : features[k].properties.class = "Class_3"

RECURSIVE CoveredArea(_, _)
CoveredArea(features, values) ==
    IF features = <<>> THEN 0
    ELSE (IF Head(features).properties.value \in values
          THEN Cardinality(Head(features).geometry) ELSE 0)
             + CoveredArea(Tail(features), values)

ClassValues == {0, 1, 3}

\* C16: the features cover as many pixels as the grid has data pixels,
\* every data pixel is covered by exactly one feature, and for each class
\* the area covered by its features is the number of data pixels of that
\* class.
C16_AreasMatchPixelCounts ==
    GeojsonReturned =>
        LET features == fc_out[1].ret.features
        IN  /\ CoveredArea(features, ClassValues) = Cardinality(DataPixels)
            /\ \A p \in DataPixels :
                  Cardinality({k \in DOMAIN features : p \in features[k].geometry}) = 1
            /\ \A c \in ClassValues :
                  CoveredArea(features, {c})
                      = Cardinality({p \in DataPixels : fc_args.image.data[p] = c})

\* A 2x2 block of class 3 in a grid of class 1, and nodata 0: one class-3
\* feature of area 4, class-1 features for the rest.
C16_Witness ==
    /\ GeojsonReturned
    /\ fc_args.nodata = <<0>>
    /\ LET features == fc_out[1].ret.features
       IN  /\ Cardinality({k \in DOMAIN features : features[k].properties.value = 3}) = 1
           /\ CoveredArea(features, {3}) = 4
           /\ CoveredArea(features, {1}) = GjSize * GjSize - 4

\* ======================================== apply_morphological_operations
\* Masks handed to apply_morphological_operations directly: a rectangle of
\* 1 on a background of 0, then possibly one pixel flipped.
MaskRectangles ==
    {[top |-> t, bottom |-> b, left |-> l, right |-> r] :
        t \in 0 .. H - 1, b \in 0 .. H - 1, l \in 0 .. W - 1, r \in 0 .. W - 1}
Masks ==
    {[shape |-> SceneShape,
      data |-> [p \in Pixels(SceneShape) |->
                   LET inside == IF InRectangle(p, rect) THEN 1 ELSE 0
                   IN  IF p \in flipped THEN 1 - inside ELSE inside]] :
        rect \in {x \in MaskRectangles : x.top <= x.bottom /\ x.left <= x.right},
        flipped \in {{}} \cup {{p} : p \in Pixels(SceneShape)}}

MorphologyInit ==
    /\ fc_fn = "apply_morphological_operations"
    /\ fc_args \in [mask : Masks, kernel_size : 1 .. MaxKernel]
    /\ fc_out = <<>>

CallMorphology ==
    /\ fc_fn = "apply_morphological_operations"
    /\ fc_out = <<>>
    /\ fc_out' = <<apply_morphological_operations(fc_args.mask, fc_args.kernel_size)>>
    /\ UNCHANGED <<fc_fn, fc_args>>
    /\ UNCHANGED notCall

MorphologyReturned == fc_fn = "apply_morphological_operations" /\ fc_out /= <<>>

\* The diamond of Manhattan radius k around p.
Diamond(p, k) ==
    {<<p[1] + dr, p[2] + dc>> : dr \in -k .. k, dc \in -k .. k} \cap
        {q \in Int \X Int : Abs(q[1] - p[1]) + Abs(q[2] - p[2]) <= k}

\* Some pixel of the mask has its whole diamond of radius k inside the grid
\* and set to 1.
HasFullDiamond(mask, k) ==
    \E p \in Pixels(mask.shape) :
        \A q \in Diamond(p, k) : q \in Pixels(mask.shape) /\ mask.data[q] = 1

\* C19: the output of apply_morphological_operations has the dimensions of
\* the input and holds only 0 and 1, and it is all zeros when no pixel of
\* the input has its whole diamond of radius kernel_size set to 1.
C19_SmallBlobsRemoved ==
    MorphologyReturned =>
        /\ fc_out[1].shape = fc_args.mask.shape
        /\ DOMAIN fc_out[1].data = Pixels(fc_args.mask.shape)
        /\ \A p \in Pixels(fc_args.mask.shape) : fc_out[1].data[p] \in {0, 1}
        /\ ~HasFullDiamond(fc_args.mask, fc_args.kernel_size) =>
              \A p \in Pixels(fc_args.mask.shape) : fc_out[1].data[p] = 0

\* A 2x2 blob away from the border: too small for any kernel, removed.
C19_Witness ==
    /\ MorphologyReturned
    /\ ~HasFullDiamond(fc_args.mask, fc_args.kernel_size)
    /\ \A p \in {<<1, 1>>, <<1, 2>>, <<2, 1>>, <<2, 2>>} : fc_args.mask.data[p] = 1
    /\ \A p \in Pixels(fc_args.mask.shape) : fc_out[1].data[p] = 0

\* The pixels within k pixels of an edge of the grid.
EdgeBand(shape, k) ==
    {p \in Pixels(shape) :
        p[1] < k \/ p[1] > shape[1] - 1 - k \/ p[2] < k \/ p[2] > shape[2] - 1 - k}

\* C26: the output of apply_morphological_operations is 0 at every pixel
\* within kernel_size pixels of a grid edge, so a fully flooded input does
\* not come back fully flooded.
C26_EdgeBandCleared ==
    MorphologyReturned =>
        /\ \A p \in EdgeBand(fc_args.mask.shape, fc_args.kernel_size) : fc_out[1].data[p] = 0
        /\ fc_args.mask = Full(fc_args.mask.shape, 1) =>
              fc_out[1] /= Full(fc_args.mask.shape, 1)

\* A fully flooded grid with kernel 1: the border ring is cleared and the
\* interior stays flooded.
C26_Witness ==
    /\ MorphologyReturned
    /\ fc_args.mask = Full(fc_args.mask.shape, 1)
    /\ fc_args.kernel_size = 1
    /\ fc_out[1].data[<<0, 2>>] = 0
    /\ fc_out[1].data[<<2, 2>>] = 1

\* ============================================ calculate_exposure_density
\* Weights are kept in units of 0.2, as for the multi-hazard table; the
\* default table is hazard 0.4, buildings 0.4, population 0.2.
DefaultExposureWeights == [hazard |-> 2, buildings |-> 2, population |-> 1]

\* x / x.max() when x.max() exceeds the limit, else x
OverMax(array, limit) ==
    LET max_val == array_max(array)
    IN  IF RGt(max_val, limit) THEN [i \in DOMAIN array |-> RDiv(array[i], max_val)]
        ELSE array

\* The coefficients applied, the exposure array, or the exception raised.
\* weights is <<>> for None; population_raster is <<>> for None.
calculate_exposure_density(hazard_raster, buildings_raster, population_raster, weights) ==
    LET failed(e) == [error |-> e, coeffs |-> <<>>, ret |-> <<>>]
        table == IF weights = <<>> THEN DefaultExposureWeights ELSE weights[1]
        hazard_norm == OverMax(hazard_raster, Rat(1, 1))
        buildings_norm == OverMax(buildings_raster, Rat(0, 1))
    IN  IF ~({"hazard", "buildings"} \subseteq DOMAIN table) THEN failed("KeyError")
        ELSE IF population_raster /= <<>>
        THEN LET pop_norm == OverMax(population_raster[1], Rat(0, 1))
                 total_weight == SumValues(table)
             IN  IF total_weight = 0 THEN failed("ZeroDivisionError")
                 ELSE IF "population" \notin DOMAIN table THEN failed("KeyError")
                 ELSE LET coeffs == <<[layer |-> "hazard", coeff |-> Rat(table["hazard"], total_weight)],
                                      [layer |-> "buildings", coeff |-> Rat(table["buildings"], total_weight)],
                                      [layer |-> "population", coeff |-> Rat(table["population"], total_weight)]>>
                      IN  [error |-> "none", coeffs |-> coeffs,
                           ret |-> Weighted(coeffs, <<hazard_norm, buildings_norm, pop_norm>>)]
        ELSE LET coeffs == <<[layer |-> "hazard", coeff |-> Tick(table["hazard"])],
                             [layer |-> "buildings", coeff |-> Tick(table["buildings"])]>>
             IN  [error |-> "none", coeffs |-> coeffs,
                  ret |-> Weighted(coeffs, <<hazard_norm, buildings_norm>>)]

\* Hazard probabilities or classes, building counts, population counts.
HazardRasters == [1 .. ExPixels -> {Tick(0), Tick(3), Rat(4, 1)}]
CountRasters == [1 .. ExPixels -> {Rat(0, 1), Rat(1, 1), Rat(3, 1)}]
ReferenceHazard == [i \in 1 .. ExPixels |-> IF i = 1 THEN Tick(3) ELSE Rat(4, 1)]
ReferenceCounts == [i \in 1 .. ExPixels |-> IF i = 1 THEN Rat(1, 1) ELSE Rat(3, 1)]
ExposureWeightTables ==
    UNION {[K -> 0 .. MaxWeight] : K \in SUBSET {"hazard", "buildings", "population"}}

\* The pipeline's call (no weights argument) on any rasters, or a call with
\* any weight table on the reference rasters.
ExposureInit ==
    /\ fc_fn = "calculate_exposure_density"
    /\ fc_args \in
          [hazard_raster : HazardRasters, buildings_raster : CountRasters,
           population_raster : {<<>>} \cup {<<q>> : q \in CountRasters}, weights : {<<>>}]
          \cup [hazard_raster : {ReferenceHazard}, buildings_raster : {ReferenceCounts},
                population_raster : {<<>>, <<ReferenceCounts>>},
                weights : {<<t>> : t \in ExposureWeightTables}]
    /\ fc_out = <<>>

CallExposureDensity ==
    /\ fc_fn = "calculate_exposure_density"
    /\ fc_out = <<>>
    /\ fc_out' = <<calculate_exposure_density(fc_args.hazard_raster, fc_args.buildings_raster,
                                              fc_args.population_raster, fc_args.weights)>>
    /\ UNCHANGED <<fc_fn, fc_args>>
    /\ UNCHANGED notCall

\* The layers present in a call.
PresentLayers ==
    IF fc_args.population_raster = <<>> THEN {"hazard", "buildings"}
    ELSE {"hazard", "buildings", "population"}

\* C23 (as claimed): when calculate_exposure_density returns, the
\* coefficients applied are those of exactly the layers present and they
\* sum to 1.
C23_ExposureCoefficientsSumToOne ==
    (fc_fn = "calculate_exposure_density" /\ fc_out /= <<>> /\ fc_out[1].error = "none")
        => /\ {fc_out[1].coeffs[j].layer : j \in DOMAIN fc_out[1].coeffs} = PresentLayers
           /\ CoeffSum(fc_out[1].coeffs) = Rat(1, 1)

\* ================================================================ save_cog
\* A profile is a dict: a function from its keys to their values. The
\* nodata entry is <<>> for None and <<v>> for the value v.
\* dict.update(other), in place
DictUpdate(dict, other) ==
    [k \in DOMAIN dict \cup DOMAIN other |-> IF k \in DOMAIN other THEN other[k] ELSE dict[k]]

\* save_cog on the caller's profile object: the object after the call,
\* which is also what rasterio.open(output_path, 'w', **profile) received.
save_cog(array_dtype, profile, nodata) ==
    LET updated == DictUpdate(profile,
                       [count |-> 1, dtype |-> array_dtype, compress |-> "LZW",
                        tiled |-> TRUE, blockxsize |-> 256, blockysize |-> 256])
    IN  IF nodata /= <<>> THEN DictUpdate(updated, [nodata |-> nodata]) ELSE updated

\* Profiles as read_raster returns them: src.profile of a striped or of a
\* tiled, compressed file.
ReadProfiles ==
    [count : {1, 3}, dtype : {"int16", "float32"}, nodata : {<<>>, <<NoData>>},
     tiled : {FALSE}]
    \cup [count : {1, 3}, dtype : {"int16", "float32"}, nodata : {<<>>, <<NoData>>},
          tiled : {TRUE}, compress : {"deflate"}, blockxsize : {512}, blockysize : {512}]

SaveCogInit ==
    /\ fc_fn = "save_cog"
    /\ fc_args \in [read : ReadProfiles]
    /\ fc_out = <<>>

\* The caller's profile object now: every call was given the same object.
CallerProfile == IF fc_out = <<>> THEN fc_args.read ELSE fc_out[Len(fc_out)].profile

\* One more save_cog(array, path, profile, nodata) with the profile that
\* was read.
CallSaveCog ==
    /\ fc_fn = "save_cog"
    /\ Len(fc_out) < MaxSaves
    /\ \E array_dtype \in {"float32", "uint8"}, nodata \in {<<>>, <<0>>} :
          fc_out' = Append(fc_out, [dtype |-> array_dtype, nodata |-> nodata,
                                    profile |-> save_cog(array_dtype, CallerProfile, nodata)])
    /\ UNCHANGED <<fc_fn, fc_args>>
    /\ UNCHANGED notCall

ProfileEntries == {"dtype", "nodata", "count", "tiled", "compress", "blockxsize", "blockysize"}

\* C24 (as claimed): after any sequence of save_cog calls the caller's
\* profile has the dtype, nodata, count and tiling/compression entries it
\* had when it was read.
C24_ProfileNotModified ==
    fc_fn = "save_cog" =>
        \A k \in ProfileEntries :
            /\ k \in DOMAIN CallerProfile <=> k \in DOMAIN fc_args.read
            /\ k \in DOMAIN fc_args.read => CallerProfile[k] = fc_args.read[k]

\* =========================================================== align_rasters
\* A raster file is its name and its grid (shape and transform); an array
\* is kept as the file it was read or reprojected from and its shape.
RasterFiles == [name : {"dem.tif", "sar.tif", "landcover.tif"}, shape : {<<2, 2>>, <<3, 3>>}]

\* src.profile
ProfileOf(file) == [height |-> file.shape[1], width |-> file.shape[2], transform |-> file.shape]

\* The elements of rasters from 0-based position i on, except position skip,
\* reprojected onto the reference grid.
RECURSIVE AlignOthers(_, _, _, _)
AlignOthers(rasters, i, skip, ref) ==
    IF i >= Len(rasters) THEN <<>>
    ELSE IF i = skip THEN AlignOthers(rasters, i + 1, skip, ref)
    ELSE <<[array |-> [source |-> rasters[i + 1].name, shape |-> ref.shape],
            profile |-> ProfileOf(ref)]>> \o AlignOthers(rasters, i + 1, skip, ref)

\* rasters[reference_idx] follows Python indexing: negative indices count
\* from the end, an index out of range raises IndexError. The loop compares
\* the 0-based position i with reference_idx itself.
align_rasters(rasters, reference_idx) ==
    IF reference_idx >= Len(rasters) \/ reference_idx < -Len(rasters)
    THEN [error |-> "IndexError", ret |-> <<>>]
    ELSE LET ref == rasters[IF reference_idx >= 0 THEN reference_idx + 1
                            ELSE Len(rasters) + reference_idx + 1]
             aligned == <<[array |-> [source |-> ref.name, shape |-> ref.shape],
                           profile |-> ProfileOf(ref)]>>
         IN  [error |-> "none", ret |-> aligned \o AlignOthers(rasters, 0, reference_idx, ref)]

RasterLists == UNION {[1 .. n -> RasterFiles] : n \in 1 .. MaxRasters}

AlignInit ==
    /\ fc_fn = "align_rasters"
    /\ \E rasters \in RasterLists :
          \E reference_idx \in -Len(rasters) .. Len(rasters) :
              fc_args = [rasters |-> rasters, reference_idx |-> reference_idx]
    /\ fc_out = <<>>

CallAlignRasters ==
    /\ fc_fn = "align_rasters"
    /\ fc_out = <<>>
    /\ fc_out' = <<align_rasters(fc_args.rasters, fc_args.reference_idx)>>
    /\ UNCHANGED <<fc_fn, fc_args>>
    /\ UNCHANGED notCall

\* C28 (as claimed): for every reference_idx that is a position of the
\* input list, align_rasters returns a list of the same length whose
\* element i is input i brought to the reference raster's shape and profile.
C28_AlignedInInputOrder ==
    (/\ fc_fn = "align_rasters"
     /\ fc_out /= <<>>
     /\ fc_args.reference_idx \in 0 .. Len(fc_args.rasters) - 1)
        => LET ref == fc_args.rasters[fc_args.reference_idx + 1]
               ret == fc_out[1].ret
           IN  /\ fc_out[1].error = "none"
               /\ Len(ret) = Len(fc_args.rasters)
               /\ \A i \in DOMAIN ret :
                     /\ ret[i].array.source = fc_args.rasters[i].name
                     /\ ret[i].array.shape = ref.shape
                     /\ ret[i].profile = ProfileOf(ref)

\* ============================= two runs of run_landslide_pipeline at once
\* Each run is given its own output_dir; the runs load the saved model. A
\* file's content is kept as what it was computed from. Every file is
\* written and read in one step.
Runs == {"A", "B"}
OutputDir(r) == IF r = "A" THEN "outputs_A" ELSE "outputs_B"
\* PROCESSED_DATA_DIR of the configuration
ProcessedDataDir == "data/processed"
DemFiles == {"dem_1.tif", "dem_2.tif"}

TerrainNames == <<"slope.tif", "aspect.tif", "curvature.tif">>
OutputNames ==
    {"landslide_susceptibility_probability.tif", "landslide_susceptibility_classified.tif",
     "landslide_susceptibility_zones.geojson"}
FeatureStackPath == <<ProcessedDataDir, "landslide_features_stack.tif">>

\* The steps of one run, in order.
RunSteps ==
    <<"save_slope", "save_aspect", "save_curvature", "read_slope", "read_aspect",
      "read_curvature", "write_stack", "read_stack", "save_probability",
      "save_classified", "geojson", "done">>
StepAfter(step) == RunSteps[1 + CHOOSE k \in DOMAIN RunSteps : RunSteps[k] = step]

\* open(path, 'w'): the file is created or replaced
WriteFile(fs, path, content) ==
    [q \in DOMAIN fs \cup {path} |-> IF q = path THEN content ELSE fs[q]]

ConcInit ==
    /\ cr_pc = [r \in Runs |-> "save_slope"]
    /\ cr_dem \in [Runs -> DemFiles]
    /\ cr_fs = <<>>
    /\ cr_local = [r \in Runs |-> [features |-> <<>>, stack |-> <<>>]]
    /\ cr_wrote = [r \in Runs |-> {}]

\* extract_terrain_features(dem_path, PROCESSED_DATA_DIR): save_cog of the
\* slope, the aspect and the curvature of the run's elevation file.
CrSaveTerrain ==
    \E r \in Runs, k \in DOMAIN TerrainNames :
        /\ cr_pc[r] = RunSteps[k]
        /\ LET path == <<ProcessedDataDir, TerrainNames[k]>>
           IN  /\ cr_fs' = WriteFile(cr_fs, path, [kind |-> TerrainNames[k], dem |-> cr_dem[r]])
               /\ cr_wrote' = [cr_wrote EXCEPT ![r] = @ \cup {path}]
        /\ cr_pc' = [cr_pc EXCEPT ![r] = StepAfter(@)]
        /\ UNCHANGED <<cr_dem, cr_local>>
        /\ UNCHANGED notConc

\* stack_features: read_raster of each feature path.
CrReadFeature ==
    \E r \in Runs, k \in DOMAIN TerrainNames :
        /\ cr_pc[r] = RunSteps[3 + k]
        /\ cr_local' = [cr_local EXCEPT ![r].features =
                           Append(@, cr_fs[<<ProcessedDataDir, TerrainNames[k]>>])]
        /\ cr_pc' = [cr_pc EXCEPT ![r] = StepAfter(@)]
        /\ UNCHANGED <<cr_dem, cr_fs, cr_wrote>>
        /\ UNCHANGED notConc

\* stack_features: the stack is written to PROCESSED_DATA_DIR.
CrWriteStack ==
    \E r \in Runs :
        /\ cr_pc[r] = "write_stack"
        /\ cr_fs' = WriteFile(cr_fs, FeatureStackPath, cr_local[r].features)
        /\ cr_wrote' = [cr_wrote EXCEPT ![r] = @ \cup {FeatureStackPath}]
        /\ cr_pc' = [cr_pc EXCEPT ![r] = StepAfter(@)]
        /\ UNCHANGED <<cr_dem, cr_local>>
        /\ UNCHANGED notConc

\* extract_features_for_prediction(feature_stack_path)
CrReadStack ==
    \E r \in Runs :
        /\ cr_pc[r] = "read_stack"
        /\ cr_local' = [cr_local EXCEPT ![r].stack = cr_fs[FeatureStackPath]]
        /\ cr_pc' = [cr_pc EXCEPT ![r] = StepAfter(@)]
        /\ UNCHANGED <<cr_dem, cr_fs, cr_wrote>>
        /\ UNCHANGED notConc

\* save_cog of the probabilities, then of the classes, into output_dir.
CrSaveOutput ==
    \E r \in Runs, name \in {"probability", "classified"} :
        /\ cr_pc[r] = (IF name = "probability" THEN "save_probability" ELSE "save_classified")
        /\ LET path == <<OutputDir(r), IF name = "probability"
                                       THEN "landslide_susceptibility_probability.tif"
                                       ELSE "landslide_susceptibility_classified.tif">>
           IN  /\ cr_fs' = WriteFile(cr_fs, path, [kind |-> name, of |-> cr_local[r].stack])
               /\ cr_wrote' = [cr_wrote EXCEPT ![r] = @ \cup {path}]
        /\ cr_pc' = [cr_pc EXCEPT ![r] = StepAfter(@)]
        /\ UNCHANGED <<cr_dem, cr_local>>
        /\ UNCHANGED notConc

\* raster_to_geojson(classified_path, geojson_path): reads the classified
\* file of output_dir and writes the zones next to it.
CrToGeoJSON ==
    \E r \in Runs :
        /\ cr_pc[r] = "geojson"
        /\ LET path == <<OutputDir(r), "landslide_susceptibility_zones.geojson">>
               read == cr_fs[<<OutputDir(r), "landslide_susceptibility_classified.tif">>]
           IN  /\ cr_fs' = WriteFile(cr_fs, path, [kind |-> "zones", of |-> read.of])
               /\ cr_wrote' = [cr_wrote EXCEPT ![r] = @ \cup {path}]
        /\ cr_pc' = [cr_pc EXCEPT ![r] = StepAfter(@)]
        /\ UNCHANGED <<cr_dem, cr_local>>
        /\ UNCHANGED notConc

ConcNext ==
    CrSaveTerrain \/ CrReadFeature \/ CrWriteStack \/ CrReadStack \/ CrSaveOutput
        \/ CrToGeoJSON

\* What a run writes into its output_dir when it runs alone.
StackAlone(r) == [k \in DOMAIN TerrainNames |-> [kind |-> TerrainNames[k], dem |-> cr_dem[r]]]

\* C22 (as claimed): two runs with different output directories write no
\* file in common, and the output files of a finished run are those it
\* writes when it runs alone.
C22_DisjointRunsIndependent ==
    cr_pc /= <<>> =>
        /\ \A r1, r2 \in Runs : r1 /= r2 => cr_wrote[r1] \cap cr_wrote[r2] = {}
        /\ \A r \in Runs :
              cr_pc[r] = "done" =>
                  \A name \in OutputNames : cr_fs[<<OutputDir(r), name>>].of = StackAlone(r)

\* ========================================== step 3 of run_flood_pipeline
\* raster_to_geojson(flood_mask_path, geojson_path, class_names) reads the
\* mask file that step 1 saved, with the nodata value stored in it.
FloodToGeoJSON ==
    /\ pc = "done"
    /\ stats /= <<>>
    /\ flood_geojson = <<>>
    /\ flood_geojson' = <<raster_to_geojson([shape |-> out_file[1].shape, data |-> out_file[1].data],
                                            <<out_file[1].nodata>>, <<FloodClassNames>>)>>
    /\ UNCHANGED notPipe

FloodPipelineNext ==
    ReadRasters \/ StepThreshold \/ StepDemMask \/ StepMorphology \/ SaveOutput
        \/ CalculateStatistics \/ FloodToGeoJSON

\* C27: every feature of the collection run_flood_pipeline writes has value
\* 1 and class 'flood' and covers flooded pixels only; a mask without a
\* flooded pixel gives an empty collection.
C27_OnlyFloodFeatures ==
    flood_geojson /= <<>> =>
        LET features == flood_geojson[1].features
            flooded == {p \in Pixels(out_file[1].shape) : out_file[1].data[p] = 1}
        IN  /\ \A k \in DOMAIN features :
                  /\ features[k].properties.value = 1
                  /\ features[k].properties.class = "flood"
                  /\ features[k].geometry \subseteq flooded
            /\ flooded = {} => features = <<>>

\* A written collection with a flood feature, from a mask that also has
\* pixels without flood.
C27_Witness ==
    /\ flood_geojson /= <<>>
    /\ flood_geojson[1].features /= <<>>
    /\ \E p \in Pixels(out_file[1].shape) : out_file[1].data[p] = 0

\* ================================================== run_all_pipelines.py
\* The script is straight-line code: four try blocks, then the closing
\* banner. A pipeline call returns or raises one of the exceptions the
\* pipelines raise; all of them derive from Exception.
ScriptSteps == <<"landslide", "flood", "exposure", "multi_hazard", "banner", "end">>
CallOutcomes == {"returned", "FileNotFoundError", "ValueError", "KeyError", "IndexError"}

\* try: outputs = run_..._pipeline(); print(complete)
\* except Exception as e: print(failed); traceback.print_exc()
TryPipeline(k) ==
    /\ ra_pc = ScriptSteps[k]
    /\ \E outcome \in CallOutcomes :
          /\ ra_attempts' = Append(ra_attempts, [pipeline |-> ScriptSteps[k], outcome |-> outcome])
          /\ ra_log' = Append(ra_log, <<ScriptSteps[k],
                                        IF outcome = "returned" THEN "complete" ELSE "failed">>)
    /\ ra_pc' = ScriptSteps[k + 1]
    /\ UNCHANGED notScript

\* Mutant of RunLandslide: an exception of the call is not caught and ends
\* the script.
RunLandslide_Uncaught ==
    /\ ra_pc = "landslide"
    /\ \E outcome \in CallOutcomes :
          /\ ra_attempts' = Append(ra_attempts, [pipeline |-> "landslide", outcome |-> outcome])
          /\ IF outcome = "returned"
             THEN /\ ra_log' = Append(ra_log, <<"landslide", "complete">>)
                  /\ ra_pc' = "flood"
             ELSE /\ ra_log' = ra_log
                  /\ ra_pc' = "end"
    /\ UNCHANGED notScript

RunLandslide == TryPipeline(1)
RunFlood == TryPipeline(2)
RunExposure == TryPipeline(3)
RunMultiHazard == TryPipeline(4)

\* print(" ALL PIPELINES COMPLETE!") and the end of the script
PrintBanner ==
    /\ ra_pc = "banner"
    /\ ra_log' = Append(ra_log, <<"all", "complete">>)
    /\ ra_pc' = "end"
    /\ UNCHANGED ra_attempts
    /\ UNCHANGED notScript

ScriptInit ==
    /\ ra_pc = "landslide"
    /\ ra_attempts = <<>>
    /\ ra_log = <<>>

ScriptNext == RunLandslide \/ RunFlood \/ RunExposure \/ RunMultiHazard \/ PrintBanner

\* The pipelines called so far are the first ones of the fixed order, each
\* once.
AttemptsInOrder ==
    /\ Len(ra_attempts) <= 4
    /\ \A k \in DOMAIN ra_attempts : ra_attempts[k].pipeline = ScriptSteps[k]

\* The script has ended after the four calls and the closing banner.
ScriptCompleted ==
    /\ ra_pc = "end"
    /\ Len(ra_attempts) = 4
    /\ ra_log[Len(ra_log)] = <<"all", "complete">>

\* C29: the script calls landslide, flood, exposure and multi-hazard once
\* each in that order, whatever the earlier calls raised, and always ends
\* with the closing banner printed.
C29_AllPipelinesAttempted == []AttemptsInOrder /\ <>ScriptCompleted

\* The script ended with the banner although the first call failed.
C29_Witness ==
    /\ ScriptCompleted
    /\ ra_attempts[1].outcome = "FileNotFoundError"
    /\ ra_attempts[4].outcome = "returned"

\* ===================== the negative-sampling loop of prepare_training_features
\* The loop is entered with attempts = 0 and an empty list; one step is one
\* iteration of the while loop, or the exit from it.
SamplingInit ==
    /\ ns_pc = "loop"
    /\ ns_features \in Stacks
    /\ n_negative_samples \in 0 .. MaxNegative
    /\ attempts = 0
    /\ negative_samples = <<>>

\* max_attempts = n_negative_samples * 10
max_attempts == n_negative_samples * 10

\* not np.any(np.isnan(sample)) and not np.any(sample == -9999)
SampleValid(sample) ==
    /\ ~(\E b \in DOMAIN sample : RIsNaN(sample[b]))
    /\ ~(\E b \in DOMAIN sample : sample[b] = RNoData)

\* Mutant of SamplingDraw: the draw is not counted.
SamplingDraw_NotCounted ==
    /\ ns_pc = "loop"
    /\ Len(negative_samples) < n_negative_samples /\ attempts < max_attempts
    /\ \E pixel \in DOMAIN ns_features :
          LET sample == ns_features[pixel]
          IN  negative_samples' = IF SampleValid(sample) THEN Append(negative_samples, sample)
                                  ELSE negative_samples
    /\ UNCHANGED <<ns_pc, ns_features, n_negative_samples, attempts>>
    /\ UNCHANGED notSample

\* One iteration: a random pixel is drawn, its sample is kept if no band is
\* NaN or -9999, and the draw is counted.
SamplingDraw ==
    /\ ns_pc = "loop"
    /\ Len(negative_samples) < n_negative_samples /\ attempts < max_attempts
    /\ \E pixel \in DOMAIN ns_features :
          LET sample == ns_features[pixel]
          IN  negative_samples' = IF SampleValid(sample) THEN Append(negative_samples, sample)
                                  ELSE negative_samples
    /\ attempts' = attempts + 1
    /\ UNCHANGED <<ns_pc, ns_features, n_negative_samples>>
    /\ UNCHANGED notSample

\* The loop condition is false: the loop is left.
SamplingExit ==
    /\ ns_pc = "loop"
    /\ ~(Len(negative_samples) < n_negative_samples /\ attempts < max_attempts)
    /\ ns_pc' = "done"
    /\ UNCHANGED <<ns_features, n_negative_samples, attempts, negative_samples>>
    /\ UNCHANGED notSample

SamplingNext == SamplingDraw \/ SamplingExit

\* The resource bounds of the loop and the validity of what it collects.
SamplingBounded ==
    /\ attempts <= 10 * n_negative_samples
    /\ Len(negative_samples) <= n_negative_samples
    /\ \A k \in DOMAIN negative_samples : SampleValid(negative_samples[k])

\* C30: the negative-sampling loop makes at most 10 * n_negative_samples
\* draws, collects at most n_negative_samples samples, none of them with a
\* NaN or -9999 band, and is always left, also on a stack whose every
\* pixel is nodata.
C30_SamplingTerminates == []SamplingBounded /\ <>(ns_pc = "done")

\* The loop was left on a stack of nodata pixels only, after every allowed
\* draw and with nothing collected.
C30_Witness ==
    /\ ns_pc = "done"
    /\ n_negative_samples > 0
    /\ \A pixel \in DOMAIN ns_features : ~SampleValid(ns_features[pixel])
    /\ attempts = 10 * n_negative_samples
    /\ negative_samples = <<>>

\* ========================================================= specifications
\* The flood pipeline alone: the classifier harness stays as constructed.
ClassIdle ==
    /\ cl_array = SampleArray
    /\ cl_thresholds = [n \in ClassNames |-> Tick(IndexIn(InsertionOrder, n))]
    /\ cl_out = [f \in Classifiers |-> <<>>]

FloodIdle ==
    /\ pc = "idle"
    /\ sar_file = NoArray
    /\ dem_file = NoArray
    /\ cfg = [threshold |-> -18, use_otsu |-> TRUE, dem_threshold |-> DemCeiling,
              morphology_kernel |-> 1]
    /\ heap = <<>>
    /\ water_mask_id = 0
    /\ calls = <<>>
    /\ out_file = <<>>
    /\ error = "none"
    /\ stats = <<>>

LsIdle ==
    /\ ls_pc = "idle"
    /\ ls_args = [train_new_model |-> FALSE, inventory_exists |-> FALSE,
                  model_exists |-> FALSE]
    /\ ls_stack = ValidStack
    /\ ls_files = {}
    /\ ls_prob = <<>>
    /\ ls_classified = <<>>
    /\ ls_error = "none"

MhIdle ==
    /\ mh_pc = "idle"
    /\ mh_in = <<>>
    /\ mh_weights = <<>>
    /\ mh_coeffs = <<>>
    /\ mh_risk = <<>>
    /\ mh_classified = <<>>
    /\ mh_files = {}
    /\ mh_error = "none"

CallIdle ==
    /\ fc_fn = "none"
    /\ fc_args = <<>>
    /\ fc_out = <<>>

ConcIdle ==
    /\ cr_pc = <<>>
    /\ cr_dem = <<>>
    /\ cr_fs = <<>>
    /\ cr_local = <<>>
    /\ cr_wrote = <<>>

PipeIdle == flood_geojson = <<>>

ScriptIdle ==
    /\ ra_pc = "idle"
    /\ ra_attempts = <<>>
    /\ ra_log = <<>>

SampleIdle ==
    /\ ns_pc = "idle"
    /\ ns_features = <<>>
    /\ n_negative_samples = 0
    /\ attempts = 0
    /\ negative_samples = <<>>

Init == FloodInit /\ ClassIdle /\ LsIdle /\ MhIdle /\ CallIdle /\ ConcIdle /\ PipeIdle /\ ScriptIdle /\ SampleIdle
Next == FloodNext
Spec == Init /\ [][Next]_vars

InitClassify == ClassInit /\ FloodIdle /\ LsIdle /\ MhIdle /\ CallIdle /\ ConcIdle /\ PipeIdle /\ ScriptIdle /\ SampleIdle
SpecClassify == InitClassify /\ [][ClassNext]_vars

InitLandslide == LsInit /\ FloodIdle /\ ClassIdle /\ MhIdle /\ CallIdle /\ ConcIdle /\ PipeIdle /\ ScriptIdle /\ SampleIdle
SpecLandslide == InitLandslide /\ [][LsNext]_vars

InitMultiHazard == MhInit /\ FloodIdle /\ ClassIdle /\ LsIdle /\ CallIdle /\ ConcIdle /\ PipeIdle /\ ScriptIdle /\ SampleIdle
SpecMultiHazard == InitMultiHazard /\ [][MhNext]_vars

InitNormalize == NormalizeInit /\ FloodIdle /\ ClassIdle /\ LsIdle /\ MhIdle /\ ConcIdle /\ PipeIdle /\ ScriptIdle /\ SampleIdle
SpecNormalize == InitNormalize /\ [][CallNormalizeRaster]_vars

InitGeojson == GeojsonInit /\ FloodIdle /\ ClassIdle /\ LsIdle /\ MhIdle /\ ConcIdle /\ PipeIdle /\ ScriptIdle /\ SampleIdle
SpecGeojson == InitGeojson /\ [][CallRasterToGeojson]_vars

InitMorphology == MorphologyInit /\ FloodIdle /\ ClassIdle /\ LsIdle /\ MhIdle /\ ConcIdle /\ PipeIdle /\ ScriptIdle /\ SampleIdle
SpecMorphology == InitMorphology /\ [][CallMorphology]_vars

InitConcurrent == ConcInit /\ FloodIdle /\ ClassIdle /\ LsIdle /\ MhIdle /\ CallIdle /\ PipeIdle /\ ScriptIdle /\ SampleIdle
SpecConcurrent == InitConcurrent /\ [][ConcNext]_vars

InitExposure == ExposureInit /\ FloodIdle /\ ClassIdle /\ LsIdle /\ MhIdle /\ ConcIdle /\ PipeIdle /\ ScriptIdle /\ SampleIdle
SpecExposure == InitExposure /\ [][CallExposureDensity]_vars

InitSaveCog == SaveCogInit /\ FloodIdle /\ ClassIdle /\ LsIdle /\ MhIdle /\ ConcIdle /\ PipeIdle /\ ScriptIdle /\ SampleIdle
SpecSaveCog == InitSaveCog /\ [][CallSaveCog]_vars

InitFloodPipeline ==
    FloodInit /\ ClassIdle /\ LsIdle /\ MhIdle /\ CallIdle /\ ConcIdle /\ PipeIdle /\ ScriptIdle /\ SampleIdle
SpecFloodPipeline == InitFloodPipeline /\ [][FloodPipelineNext]_vars

InitAlign == AlignInit /\ FloodIdle /\ ClassIdle /\ LsIdle /\ MhIdle /\ ConcIdle /\ PipeIdle /\ ScriptIdle /\ SampleIdle
SpecAlign == InitAlign /\ [][CallAlignRasters]_vars

\* The interpreter runs the script's statements one after the other and
\* every pipeline call returns or raises: the next step is always taken.
InitScript ==
    ScriptInit /\ FloodIdle /\ ClassIdle /\ LsIdle /\ MhIdle /\ CallIdle /\ ConcIdle /\ PipeIdle /\ SampleIdle
SpecScript == InitScript /\ [][ScriptNext]_vars /\ WF_vars(ScriptNext)

\* np.random.randint returns and the loop body has no blocking call: an
\* iteration that can run does run.
InitSampling ==
    SamplingInit /\ FloodIdle /\ ClassIdle /\ LsIdle /\ MhIdle /\ CallIdle /\ ConcIdle /\ PipeIdle /\ ScriptIdle
SpecSampling == InitSampling /\ [][SamplingNext]_vars /\ WF_vars(SamplingNext)

====
